---- MODULE Spec2Model ----
(***************************************************************************)
(* Model of the relevance-ranking search engine of clean-code-mcp:         *)
(* src/search/scoring.ts (scorePrincipleByQuery, scorePrincipleByTokens,   *)
(* rankPrinciples), src/search/tokenizer.ts (tokenize, removeStopWords,    *)
(* detectCategoryBoosts) and the tool handlers of src/tools over the       *)
(* corpus of src/data/principles.ts.                                       *)
(* JavaScript strings are TLA+ strings; JavaScript arrays are sequences    *)
(* held in a small heap so that in-place mutation (Array.prototype.sort)   *)
(* can be told apart from copying (map, filter).                           *)
(***************************************************************************)
EXTENDS Integers, Sequences, FiniteSets

VARIABLES
    pc,              \* "call" before a function runs, then what ran; the server:
                     \* "idle" or the tool whose handler is about to run
    principles,      \* rankPrinciples: contents of the caller's input array
    scoreFn,         \* rankPrinciples: the score function, principle -> number
    ranked,          \* rankPrinciples: contents of the returned array
    rankedIsInput,   \* rankPrinciples: the returned array is the input array
    principle,       \* scorePrincipleBy*: the principle being scored
    query,           \* scorePrincipleByQuery: the raw query string
    tokens,          \* scorePrincipleByTokens / detectCategoryBoosts: tokens
    categoryBoosts,  \* the Map<PrincipleCategory, number> handed to scoring
    score,           \* the number returned by the scoring call
    context,         \* tokenize / search-by-context: the raw text
    requestedCategory, \* list-principles: the category argument
    response,        \* the content returned by the last tool handler
    served           \* the log of the requests served so far, oldest first

vars == <<pc, principles, scoreFn, ranked, rankedIsInput, principle, query,
          tokens, categoryBoosts, score, context, requestedCategory, response, served>>

-----------------------------------------------------------------------------
(* Bounds of the model.                                                    *)

MaxPrinciples == 3   \* longest input array handed to rankPrinciples
MaxScore == 2        \* largest value a drawn score function returns
MaxTags == 2         \* longest tags array of a drawn principle
MaxTokens == 3       \* longest token array

-----------------------------------------------------------------------------
(* rankPrinciples, src/search/scoring.ts:66-75.                            *)
(* JavaScript arrays: a heap is a sequence of arrays, a reference is an    *)
(* index into it.  map and filter allocate a new array, sort mutates its   *)
(* receiver and returns it.                                                *)

\* A new array with the given elements (<<>> \o copies them into it).
Allocate(heap, array) ==
    [heap |-> Append(heap, <<>> \o array), ref |-> Len(heap) + 1]

\* .map((principle) => ({ principle, score: scoreFn(principle) }))
WithScore(fn, p) == [principle |-> p, score |-> fn[p]]

MapWithScore(heap, ref, fn) ==
    Allocate(heap, [i \in 1..Len(heap[ref]) |-> WithScore(fn, heap[ref][i])])

\* Variant of PositiveScore that keeps a score of 0.
PositiveScoreOrZero(entry) == entry.score >= 0

\* .filter(({ score }) => score > 0)
PositiveScore(entry) == entry.score > 0

FilterPositive(heap, ref) == Allocate(heap, SelectSeq(heap[ref], PositiveScore))

\* Variant of DescendingScore that sorts by ascending score.
AscendingScore(a, b) == a.score - b.score

\* .sort((a, b) => b.score - a.score)
DescendingScore(a, b) == b.score - a.score

\* Variant of SortedPosition that puts an element behind the later elements
\* it compares equal to (an unstable sort).
SortedPositionUnstable(s, i) ==
    Cardinality({j \in 1..Len(s) :
                    \/ DescendingScore(s[j], s[i]) < 0
                    \/ DescendingScore(s[j], s[i]) = 0 /\ j > i}) + 1

\* Where Array.prototype.sort puts s[i]: behind the elements the comparator
\* puts in front of it and behind the earlier elements that compare equal
\* to it (Array.prototype.sort is a stable sort).
SortedPosition(s, i) ==
    Cardinality({j \in 1..Len(s) :
                    \/ DescendingScore(s[j], s[i]) < 0
                    \/ DescendingScore(s[j], s[i]) = 0 /\ j < i}) + 1

StableSort(s) ==
    LET position == [i \in 1..Len(s) |-> SortedPosition(s, i)]
        length == Len(position)
    IN  [k \in 1..length |-> s[CHOOSE i \in 1..length : position[i] = k]]

SortByScore(heap, ref) ==
    [heap |-> [heap EXCEPT ![ref] = StableSort(heap[ref])], ref |-> ref]

\* .map(({ principle }) => principle)
MapPrinciple(heap, ref) ==
    Allocate(heap, [i \in 1..Len(heap[ref]) |-> heap[ref][i].principle])

\* Variant of rankPrinciples that sorts the caller's array itself by score
\* before filtering it: principles.sort(...).filter(...).
rankPrinciplesInPlace(heap, ref, fn) ==
    LET scored == [i \in 1..Len(heap[ref]) |-> WithScore(fn, heap[ref][i])]
        sortedScored == StableSort(scored)
        sortedInput == [i \in 1..Len(scored) |-> sortedScored[i].principle]
        mutated == [heap EXCEPT ![ref] = sortedInput]
        mapped == MapWithScore(mutated, ref, fn)
        filtered == FilterPositive(mapped.heap, mapped.ref)
    IN  MapPrinciple(filtered.heap, filtered.ref)

rankPrinciples(heap, ref, fn) ==
    LET mapped == MapWithScore(heap, ref, fn)
        filtered == FilterPositive(mapped.heap, mapped.ref)
        sorted == SortByScore(filtered.heap, filtered.ref)
    IN  MapPrinciple(sorted.heap, sorted.ref)

-----------------------------------------------------------------------------
(* PRINCIPLES, src/data/principles.ts:18-1781: the shipped corpus, without *)
(* the examples field, which no search, listing or ranking code reads.     *)
(* The character U+2014 of twelve descriptions is written "~": like it, "~"*)
(* is neither a token character nor white space.                           *)

PRINCIPLES ==
    << [id |-> "use-intention-revealing-names",
        name |-> "Use Intention-Revealing Names",
        category |-> "naming",
        description |->
          "Variable, function, and class names should reveal why they e" \o
          "xist, what they do, and how they are used. A name that requi" \o
          "res a comment to explain its purpose fails to reveal its int" \o
          "ention.",
        tags |-> <<"naming", "readability", "intention", "variables", "clarity">>],
       [id |-> "avoid-disinformation",
        name |-> "Avoid Disinformation",
        category |-> "naming",
        description |->
          "Do not use names that mislead the reader about the meaning o" \o
          "f a variable or its type. Avoid using names like 'accountLis" \o
          "t' when the variable is not actually a List. Avoid names tha" \o
          "t vary in small ways.",
        tags |-> <<"naming", "misleading", "disinformation", "types", "clarity">>],
       [id |-> "make-meaningful-distinctions",
        name |-> "Make Meaningful Distinctions",
        category |-> "naming",
        description |->
          "If names must be different, they should also mean something " \o
          "different. Number-series naming (a1, a2, ...) and noise word" \o
          "s (Info, Data, the) are not meaningful distinctions.",
        tags |-> <<"naming", "distinction", "noise-words", "clarity">>],
       [id |-> "use-pronounceable-names",
        name |-> "Use Pronounceable Names",
        category |-> "naming",
        description |->
          "Names should be pronounceable so they can be discussed witho" \o
          "ut sounding foolish. Programming is a social activity; if yo" \o
          "u can't pronounce a name, you can't discuss it without looki" \o
          "ng silly.",
        tags |-> <<"naming", "pronounceable", "communication", "readability">>],
       [id |-> "use-searchable-names",
        name |-> "Use Searchable Names",
        category |-> "naming",
        description |->
          "Single-letter names and numeric constants are hard to locate" \o
          " across a body of text. Longer names are easier to search fo" \o
          "r. The length of a name should correspond to the size of its" \o
          " scope.",
        tags |-> <<"naming", "searchable", "constants", "magic-numbers", "scope">>],
       [id |-> "avoid-encodings",
        name |-> "Avoid Encodings",
        category |-> "naming",
        description |->
          "Hungarian notation, member prefixes (m_), and interface pref" \o
          "ixes (I) add noise. Modern editors and languages make these " \o
          "encodings unnecessary. They add cognitive overhead and make " \o
          "names harder to read.",
        tags |-> <<"naming", "encodings", "hungarian-notation", "prefixes", "interfaces">>],
       [id |-> "class-names-should-be-nouns",
        name |-> "Class Names Should Be Nouns",
        category |-> "naming",
        description |->
          "Classes and objects should have noun or noun phrase names. A" \o
          " class name should not be a verb. Avoid generic names like M" \o
          "anager, Processor, Data, or Info ~ prefer specific names tha" \o
          "t describe what the class represents.",
        tags |-> <<"naming", "classes", "nouns", "verbs", "object-oriented">>],
       [id |-> "method-names-should-be-verbs",
        name |-> "Method Names Should Be Verbs",
        category |-> "naming",
        description |->
          "Methods should have verb or verb phrase names. Accessors, mu" \o
          "tators, and predicates should be prefixed with get, set, and" \o
          " is according to convention.",
        tags |-> <<"naming", "methods", "verbs", "accessors", "predicates">>],
       [id |-> "pick-one-word-per-concept",
        name |-> "Pick One Word Per Concept",
        category |-> "naming",
        description |->
          "Use one word for one abstract concept and stick with it. It " \o
          "is confusing to have fetch, retrieve, and get as equivalent " \o
          "methods of different classes. A consistent lexicon makes cod" \o
          "e easier to navigate.",
        tags |-> <<"naming", "consistency", "vocabulary", "concept", "lexicon">>],
       [id |-> "use-solution-domain-names",
        name |-> "Use Solution Domain Names",
        category |-> "naming",
        description |->
          "Use computer science terms, algorithm names, pattern names, " \o
          "and math terms when appropriate. The people reading your cod" \o
          "e are programmers ~ names like 'visitor', 'queue', or 'jobQu" \o
          "eue' are clear to them.",
        tags |-> <<"naming", "domain", "patterns", "technical", "vocabulary">>],
       [id |-> "keep-functions-small",
        name |-> "Keep Functions Small",
        category |-> "functions",
        description |->
          "Functions should be small. The first rule of functions is th" \o
          "at they should be small. The second rule is that they should" \o
          " be smaller than that. Small functions are easier to read, u" \o
          "nderstand, and maintain.",
        tags |-> <<"functions", "small", "size", "readability", "decomposition">>],
       [id |-> "do-one-thing",
        name |-> "Do One Thing",
        category |-> "functions",
        description |->
          "Functions should do one thing. They should do it well. They " \o
          "should do it only. If a function does steps that are one lev" \o
          "el of abstraction below the stated name of the function, it " \o
          "is doing one thing.",
        tags |-> <<"functions", "single-responsibility", "one-thing", "srp", "decomposition">>],
       [id |-> "one-level-of-abstraction",
        name |-> "One Level of Abstraction per Function",
        category |-> "functions",
        description |->
          "Mixing levels of abstraction within a function is confusing." \o
          " Readers may not be able to tell whether an expression is an" \o
          " essential concept or a detail. Keep each function at a sing" \o
          "le, consistent level of abstraction.",
        tags |-> <<"functions", "abstraction", "levels", "readability", "stepdown">>],
       [id |-> "use-descriptive-names",
        name |-> "Use Descriptive Names for Functions",
        category |-> "functions",
        description |->
          "A long descriptive name is better than a short enigmatic nam" \o
          "e. A long descriptive name is better than a long descriptive" \o
          " comment. Don't be afraid to make a name long if it improves" \o
          " clarity.",
        tags |-> <<"functions", "naming", "descriptive", "readability", "self-documenting">>],
       [id |-> "minimize-function-arguments",
        name |-> "Minimize Function Arguments",
        category |-> "functions",
        description |->
          "The ideal number of arguments for a function is zero (niladi" \o
          "c). Next comes one (monadic), followed by two (dyadic). Thre" \o
          "e arguments (triadic) should be avoided. More than three req" \o
          "uires very special justification. Use objects to group relat" \o
          "ed arguments.",
        tags |-> <<"functions", "arguments", "parameters", "objects", "arity">>],
       [id |-> "avoid-flag-arguments",
        name |-> "Avoid Flag Arguments",
        category |-> "functions",
        description |->
          "Boolean arguments loudly declare that the function does more" \o
          " than one thing. They are confusing and should be avoided. I" \o
          "nstead, split the function into two with descriptive names.",
        tags |-> <<"functions", "boolean", "flags", "splitting", "srp">>],
       [id |-> "avoid-side-effects-in-functions",
        name |-> "Avoid Side Effects",
        category |-> "functions",
        description |->
          "Side effects are lies. A function promises to do one thing, " \o
          "but it also does hidden things ~ modifying globals, writing " \o
          "files, or changing passed-in arguments. If a function must h" \o
          "ave a side effect, make it explicit in the name.",
        tags |-> <<"functions", "side-effects", "purity", "hidden-behavior", "coupling">>],
       [id |-> "command-query-separation",
        name |-> "Command-Query Separation",
        category |-> "functions",
        description |->
          "Functions should either do something (command) or answer som" \o
          "ething (query), but not both. Doing both leads to confusion." \o
          " A function that changes state should not return a value, an" \o
          "d vice versa.",
        tags |-> <<"functions", "command-query", "cqs", "separation", "design">>],
       [id |-> "prefer-exceptions-to-error-codes",
        name |-> "Prefer Exceptions to Returning Error Codes",
        category |-> "functions",
        description |->
          "Returning error codes leads to deeply nested structures and " \o
          "forces callers to deal with errors immediately. Exceptions a" \o
          "llow error processing to be separated from the happy path, m" \o
          "aking code cleaner.",
        tags |-> <<"functions", "errors", "exceptions", "error-codes", "nesting">>],
       [id |-> "dry-principle",
        name |-> "Don't Repeat Yourself (DRY)",
        category |-> "functions",
        description |->
          "Duplication is the root of all evil in software. Every piece" \o
          " of knowledge must have a single, unambiguous, authoritative" \o
          " representation within a system. Duplicated code means dupli" \o
          "cated bugs and duplicated maintenance effort.",
        tags |-> <<"functions", "dry", "duplication", "reuse", "maintenance">>],
       [id |-> "comments-do-not-make-up-for-bad-code",
        name |-> "Comments Do Not Make Up for Bad Code",
        category |-> "comments",
        description |->
          "One of the most common motivations for writing comments is b" \o
          "ad code. Rather than spending time writing a comment to expl" \o
          "ain messy code, spend it cleaning the code. Clear code with " \o
          "few comments is far superior to cluttered code with lots of " \o
          "comments.",
        tags |-> <<"comments", "bad-code", "refactoring", "readability", "self-documenting">>],
       [id |-> "explain-intent-with-comments",
        name |-> "Use Comments to Explain Intent",
        category |-> "comments",
        description |->
          "Sometimes a comment is useful to explain why a decision was " \o
          "made, not what the code does. Comments that explain intent b" \o
          "ehind a decision provide value that the code cannot express " \o
          "on its own.",
        tags |-> <<"comments", "intent", "why", "decision", "business-rules">>],
       [id |-> "avoid-redundant-comments",
        name |-> "Avoid Redundant Comments",
        category |-> "comments",
        description |->
          "A comment is redundant if it describes something that adequa" \o
          "tely describes itself. Comments that restate what the code a" \o
          "lready clearly says are noise and should be removed.",
        tags |-> <<"comments", "redundant", "noise", "clutter", "readability">>],
       [id |-> "avoid-commented-out-code",
        name |-> "Don't Comment Out Code",
        category |-> "comments",
        description |->
          "Commented-out code festers and rots. It confuses other devel" \o
          "opers who are afraid to delete it. Version control remembers" \o
          " your code ~ delete it and retrieve it from history if neede" \o
          "d.",
        tags |-> <<"comments", "dead-code", "version-control", "cleanup">>],
       [id |-> "todo-comments",
        name |-> "Use TODO Comments Sparingly",
        category |-> "comments",
        description |->
          "TODO comments are acceptable as a temporary reminder of work" \o
          " to be done, but they should not be an excuse to leave bad c" \o
          "ode in the system. Regularly scan for and address TODO comme" \o
          "nts.",
        tags |-> <<"comments", "todo", "temporary", "tracking", "technical-debt">>],
       [id |-> "vertical-openness",
        name |-> "Vertical Openness Between Concepts",
        category |-> "formatting",
        description |->
          "Each blank line is a visual cue that identifies a new and se" \o
          "parate concept. Blank lines separate the package declaration" \o
          ", imports, and each of the functions. This simple rule has a" \o
          " profound effect on readability.",
        tags |-> <<"formatting", "vertical", "whitespace", "blank-lines", "readability">>],
       [id |-> "vertical-density",
        name |-> "Vertical Density for Related Code",
        category |-> "formatting",
        description |->
          "Lines of code that are tightly related should appear vertica" \o
          "lly close to each other. Closely related concepts should not" \o
          " be separated into different files unless there is a very st" \o
          "rong reason.",
        tags |-> <<"formatting", "vertical", "density", "related-code", "cohesion">>],
       [id |-> "dependent-functions-close",
        name |-> "Keep Dependent Functions Close",
        category |-> "formatting",
        description |->
          "If one function calls another, they should be vertically clo" \o
          "se in the source file, with the caller above the callee when" \o
          " possible. This gives the program a natural flow and enhance" \o
          "s readability.",
        tags |-> <<"formatting", "vertical", "ordering", "caller-callee", "flow">>],
       [id |-> "horizontal-formatting",
        name |-> "Keep Lines Short",
        category |-> "formatting",
        description |->
          "Lines should be short. The old Hollerith limit of 80 is a bi" \o
          "t arbitrary, but lines beyond 120 characters are careless. S" \o
          "hort lines are easier to read and understand.",
        tags |-> <<"formatting", "horizontal", "line-length", "readability", "wrapping">>],
       [id |-> "use-exceptions-not-return-codes",
        name |-> "Use Exceptions, Not Return Codes",
        category |-> "error-handling",
        description |->
          "Using exceptions rather than return codes separates error ha" \o
          "ndling from the main logic. The calling code is cleaner beca" \o
          "use it doesn't need to check for error codes after every cal" \o
          "l.",
        tags |-> <<"error-handling", "exceptions", "return-codes", "clarity", "separation">>],
       [id |-> "write-try-catch-first",
        name |-> "Write Try-Catch-Finally First",
        category |-> "error-handling",
        description |->
          "When writing code that might throw exceptions, start with th" \o
          "e try-catch-finally statement. This helps define what the ca" \o
          "ller can expect, regardless of what goes wrong in the try bl" \o
          "ock.",
        tags |-> <<"error-handling", "try-catch", "exceptions", "structure", "defensive">>],
       [id |-> "provide-context-with-exceptions",
        name |-> "Provide Context with Exceptions",
        category |-> "error-handling",
        description |->
          "Each exception should provide enough context to determine th" \o
          "e source and location of an error. Create informative error " \o
          "messages that include the operation attempted and the type o" \o
          "f failure.",
        tags |-> <<"error-handling", "context", "messages", "debugging", "diagnostics">>],
       [id |-> "dont-return-null",
        name |-> "Don't Return Null",
        category |-> "error-handling",
        description |->
          "Returning null creates work for the caller and invites null-" \o
          "pointer errors. When tempted to return null, consider throwi" \o
          "ng an exception or returning a special case object instead.",
        tags |-> <<"error-handling", "null", "null-checks", "exceptions", "special-case">>],
       [id |-> "dont-pass-null",
        name |-> "Don't Pass Null as Arguments",
        category |-> "error-handling",
        description |->
          "Passing null to a function is worse than returning null. Unl" \o
          "ess the API expects null, avoid passing it as it shifts the " \o
          "burden of null-checking to every function that receives para" \o
          "meters.",
        tags |-> <<"error-handling", "null", "arguments", "defensive", "contracts">>],
       [id |-> "one-assert-per-test",
        name |-> "One Assert per Test",
        category |-> "unit-testing",
        description |->
          "If your project uses tests, they are easiest to understand w" \o
          "hen each test function contains a single assertion. Multiple" \o
          " assertions can obscure which concept is being tested. When " \o
          "a test fails, you immediately know what's broken.",
        tags |-> <<"unit-testing", "assertions", "single-concept", "clarity", "debugging">>],
       [id |-> "fast-tests",
        name |-> "Tests Should Be Fast (F.I.R.S.T.)",
        category |-> "unit-testing",
        description |->
          "If your project uses tests, fast tests are run frequently. S" \o
          "low tests are run infrequently. When tests run slow, you won" \o
          "'t want to run them frequently, and you'll lose the ability " \o
          "to catch problems early. Aim for tests that run in milliseco" \o
          "nds.",
        tags |-> <<"unit-testing", "fast", "first", "performance", "frequency">>],
       [id |-> "independent-tests",
        name |-> "Tests Should Be Independent",
        category |-> "unit-testing",
        description |->
          "If your project uses tests, they should not depend on each o" \o
          "ther. One test should not set up the conditions for the next" \o
          ". You should be able to run each test independently and in a" \o
          "ny order.",
        tags |-> <<"unit-testing", "independent", "isolation", "first", "coupling">>],
       [id |-> "readable-tests",
        name |-> "Tests Should Be Readable",
        category |-> "unit-testing",
        description |->
          "If your project uses tests, readability is perhaps even more" \o
          " important than in production code. Tests serve as documenta" \o
          "tion for how code should be used. Each test should tell a cl" \o
          "ear story: arrange, act, assert.",
        tags |-> <<"unit-testing", "readability", "documentation", "arrange-act-assert", "naming">>],
       [id |-> "test-boundary-conditions",
        name |-> "Test Boundary Conditions",
        category |-> "unit-testing",
        description |->
          "Bugs often cluster at boundaries ~ empty arrays, zero values" \o
          ", null inputs, max limits. If your project uses tests, exerc" \o
          "ise boundary conditions explicitly. It's where most errors h" \o
          "ide.",
        tags |-> <<"unit-testing", "boundaries", "edge-cases", "bugs", "defensive">>],
       [id |-> "classes-should-be-small",
        name |-> "Classes Should Be Small",
        category |-> "classes",
        description |->
          "Classes should be small. With functions we measure size by c" \o
          "ounting physical lines. With classes we count responsibiliti" \o
          "es. A class name should describe its single responsibility ~" \o
          " if it requires 'and' or 'or', it does too much.",
        tags |-> <<"classes", "small", "responsibilities", "srp", "cohesion">>],
       [id |-> "high-cohesion",
        name |-> "Maintain High Cohesion",
        category |-> "classes",
        description |->
          "A class should have a small number of instance variables. Ea" \o
          "ch method should manipulate one or more of those variables. " \o
          "The more variables a method manipulates, the more cohesive i" \o
          "t is to its class.",
        tags |-> <<"classes", "cohesion", "instance-variables", "design", "coupling">>],
       [id |-> "organize-for-change",
        name |-> "Organize Classes for Change",
        category |-> "classes",
        description |->
          "Classes should be organized so that change is easy. The Open" \o
          "/Closed Principle states that classes should be open for ext" \o
          "ension but closed for modification. When a new requirement a" \o
          "rrives, it should require adding code, not changing existing" \o
          " code.",
        tags |-> <<"classes", "open-closed", "change", "extension", "modification">>],
       [id |-> "single-responsibility-principle",
        name |-> "Single Responsibility Principle (SRP)",
        category |-> "solid",
        description |->
          "A class should have one, and only one, reason to change. If " \o
          "a class has more than one responsibility, those responsibili" \o
          "ties become coupled. A change to one can impair or inhibit t" \o
          "he class's ability to meet the others.",
        tags |-> <<"solid", "srp", "single-responsibility", "coupling", "cohesion">>],
       [id |-> "open-closed-principle",
        name |-> "Open/Closed Principle (OCP)",
        category |-> "solid",
        description |->
          "Software entities should be open for extension but closed fo" \o
          "r modification. You should be able to add new behavior witho" \o
          "ut changing existing code. This is typically achieved throug" \o
          "h abstractions and polymorphism.",
        tags |-> <<"solid", "ocp", "open-closed", "extension", "polymorphism">>],
       [id |-> "liskov-substitution-principle",
        name |-> "Liskov Substitution Principle (LSP)",
        category |-> "solid",
        description |->
          "Objects of a superclass should be replaceable with objects o" \o
          "f a subclass without breaking the application. Subtypes must" \o
          " be substitutable for their base types. Violating this leads" \o
          " to fragile code with instanceof checks.",
        tags |-> <<"solid", "lsp", "liskov", "substitution", "inheritance", "polymorphism">>],
       [id |-> "interface-segregation-principle",
        name |-> "Interface Segregation Principle (ISP)",
        category |-> "solid",
        description |->
          "Clients should not be forced to depend on interfaces they do" \o
          " not use. Fat interfaces should be split into smaller, more " \o
          "specific ones so that clients only need to know about the me" \o
          "thods that are of interest to them.",
        tags |-> <<"solid", "isp", "interface-segregation", "fat-interface", "decoupling">>],
       [id |-> "dependency-inversion-principle",
        name |-> "Dependency Inversion Principle (DIP)",
        category |-> "solid",
        description |->
          "High-level modules should not depend on low-level modules. B" \o
          "oth should depend on abstractions. Abstractions should not d" \o
          "epend on details. Details should depend on abstractions. Thi" \o
          "s reduces coupling between modules.",
        tags |-> <<"solid", "dip", "dependency-inversion", "abstractions", "decoupling", "injection">>],
       [id |-> "avoid-magic-numbers",
        name |-> "Replace Magic Numbers with Named Constants",
        category |-> "code-smells",
        description |->
          "Magic numbers are raw numbers in source code with no explana" \o
          "tion. They should be replaced with well-named constants. Nam" \o
          "ed constants add context and make code easier to read and mo" \o
          "dify.",
        tags |-> <<"code-smells", "magic-numbers", "constants", "readability", "maintenance">>],
       [id |-> "avoid-dead-code",
        name |-> "Remove Dead Code",
        category |-> "code-smells",
        description |->
          "Dead code ~ code that is never executed ~ is clutter. It con" \o
          "fuses readers and wastes mental energy. Delete it. Version c" \o
          "ontrol systems remember it if you ever need it back.",
        tags |-> <<"code-smells", "dead-code", "cleanup", "clutter", "version-control">>],
       [id |-> "avoid-feature-envy",
        name |-> "Avoid Feature Envy",
        category |-> "code-smells",
        description |->
          "A method that uses more features of another class than its o" \o
          "wn has feature envy. It should probably be moved to the clas" \o
          "s it envies. Methods should be close to the data they manipu" \o
          "late.",
        tags |-> <<"code-smells", "feature-envy", "coupling", "encapsulation", "move-method">>],
       [id |-> "avoid-long-parameter-lists",
        name |-> "Avoid Long Parameter Lists",
        category |-> "code-smells",
        description |->
          "Functions with many parameters are hard to understand and er" \o
          "ror-prone. Group related parameters into objects. Long param" \o
          "eter lists are a sign that a function may be doing too much.",
        tags |-> <<"code-smells", "parameters", "arguments", "objects", "readability">>],
       [id |-> "avoid-inappropriate-intimacy",
        name |-> "Avoid Inappropriate Intimacy",
        category |-> "code-smells",
        description |->
          "Classes that reach into the private parts of other classes a" \o
          "re too intimate. Minimize what one class knows about the int" \o
          "ernals of another. Keep interactions at the interface level.",
        tags |-> <<"code-smells", "coupling", "encapsulation", "intimacy", "information-hiding">>],
       [id |-> "data-abstraction",
        name |-> "Data Abstraction",
        category |-> "objects-and-data-structures",
        description |->
          "Hiding implementation is about abstractions, not just puttin" \o
          "g a layer of functions between variables. A class should exp" \o
          "ose abstract interfaces that allow users to manipulate the e" \o
          "ssence of the data without knowing its implementation.",
        tags |-> <<"objects-and-data-structures", "abstraction", "encapsulation", "interface", "hiding">>],
       [id |-> "law-of-demeter",
        name |-> "Law of Demeter",
        category |-> "objects-and-data-structures",
        description |->
          "A method should only call methods on its own object, its par" \o
          "ameters, objects it creates, and its direct components. \"Tal" \o
          "k to friends, not to strangers.\" Chains like a.getB().getC()" \o
          ".doSomething() violate this law.",
        tags |-> <<"objects-and-data-structures", "demeter", "coupling", "train-wreck", "encapsulation">>],
       [id |-> "data-transfer-objects",
        name |-> "Use Data Transfer Objects (DTOs)",
        category |-> "objects-and-data-structures",
        description |->
          "Data structures with public variables and no functions (DTOs" \o
          ") are useful for transferring data between layers. They are " \o
          "not objects ~ they have no behavior. Keep them pure data hol" \o
          "ders.",
        tags |-> <<"objects-and-data-structures", "dto", "data-transfer", "layers", "serialization">>],
       [id |-> "keep-concurrency-separate",
        name |-> "Keep Concurrency Code Separate",
        category |-> "concurrency",
        description |->
          "Concurrency-related code has its own lifecycle of developmen" \o
          "t, change, and tuning. Mixing it with other code adds comple" \o
          "xity. Keep concurrency-related code separated from other cod" \o
          "e.",
        tags |-> <<"concurrency", "separation", "async", "parallel", "complexity">>],
       [id |-> "avoid-shared-mutable-state",
        name |-> "Avoid Shared Mutable State",
        category |-> "concurrency",
        description |->
          "Shared mutable state is the root of most concurrency problem" \o
          "s. Prefer immutable data, message passing, or isolated state" \o
          ". When sharing is necessary, use proper synchronization.",
        tags |-> <<"concurrency", "shared-state", "mutable", "immutable", "race-condition">>],
       [id |-> "separate-construction-from-use",
        name |-> "Separate Construction from Use",
        category |-> "systems",
        description |->
          "The startup process of constructing objects and wiring depen" \o
          "dencies is a separate concern from the runtime logic. Mixing" \o
          " construction with use creates tight coupling and makes the " \o
          "code harder to maintain and extend.",
        tags |-> <<"systems", "construction", "dependency-injection", "coupling", "testing">>],
       [id |-> "use-dependency-injection",
        name |-> "Use Dependency Injection",
        category |-> "systems",
        description |->
          "Rather than having an object create its own dependencies, pa" \o
          "ss them in from outside. This separates construction from us" \o
          "e, improves flexibility, and allows different implementation" \o
          "s to be swapped in.",
        tags |-> <<"systems", "dependency-injection", "di", "testing", "decoupling">>],
       [id |-> "simple-design-runs-all-tests",
        name |-> "Simple Design Rule 1: Runs All the Tests",
        category |-> "emergence",
        description |->
          "A system that can be verified is more reliable. Designing fo" \o
          "r verifiability pushes us toward small, single-purpose class" \o
          "es and loose coupling ~ which naturally leads to better desi" \o
          "gn. If your project uses tests, they are a valuable tool for" \o
          " verification ~ but verifiability matters regardless.",
        tags |-> <<"emergence", "testing", "verification", "design", "testability">>],
       [id |-> "simple-design-no-duplication",
        name |-> "Simple Design Rule 2: No Duplication",
        category |-> "emergence",
        description |->
          "Duplication is the primary enemy of a well-designed system. " \o
          "It represents additional work, additional risk, and addition" \o
          "al unnecessary complexity. Eliminating duplication often lea" \o
          "ds to discovering new abstractions.",
        tags |-> <<"emergence", "duplication", "dry", "abstraction", "refactoring">>],
       [id |-> "simple-design-expressive",
        name |-> "Simple Design Rule 3: Expressive",
        category |-> "emergence",
        description |->
          "Code should clearly express the intent of its author. The cl" \o
          "earer code is, the less time others will spend understanding" \o
          " it. Use good names, keep functions and classes small, and u" \o
          "se standard nomenclature (design patterns). When the project" \o
          " includes tests, ensure they are well-crafted and expressive" \o
          " too.",
        tags |-> <<"emergence", "expressiveness", "readability", "naming", "clarity">>],
       [id |-> "simple-design-minimal",
        name |-> "Simple Design Rule 4: Minimal Classes and Methods",
        category |-> "emergence",
        description |->
          "Keep the overall count of classes and methods low. Too many " \o
          "tiny classes and methods can be as problematic as too few la" \o
          "rge ones. Be pragmatic ~ this rule has the lowest priority o" \o
          "f the four simple design rules.",
        tags |-> <<"emergence", "minimal", "pragmatism", "over-engineering", "simplicity">>] >>

\* The principle objects: references into PRINCIPLES.
PrincipleObjects == 1..Len(PRINCIPLES)

\* The PRINCIPLES array as the module initializes it.
InitialCorpus == [i \in PrincipleObjects |-> i]

-----------------------------------------------------------------------------
(* JavaScript string operations used by the scorer.                        *)

CharAt(s, i) == SubSeq(s, i, i)

UpperCaseLetters == "ABCDEFGHIJKLMNOPQRSTUVWXYZ"

LowerCaseLetters == "abcdefghijklmnopqrstuvwxyz"

\* The lower-case letter of every upper-case letter.
LowerOf ==
    [c \in {CharAt(UpperCaseLetters, i) : i \in 1..Len(UpperCaseLetters)} |->
        CharAt(LowerCaseLetters,
               CHOOSE i \in 1..Len(UpperCaseLetters) : CharAt(UpperCaseLetters, i) = c)]

LowerChar(c) == IF c \in DOMAIN LowerOf THEN LowerOf[c] ELSE c

RECURSIVE LowerRange(_, _, _)
\* The characters first..last of s, each in lower case (the range is halved
\* so that a long description needs no deep recursion).
LowerRange(s, first, last) ==
    IF first > last THEN ""
    ELSE IF first = last THEN LowerChar(CharAt(s, first))
    ELSE LET middle == (first + last) \div 2
         IN  LowerRange(s, first, middle) \o LowerRange(s, middle + 1, last)

\* The names and descriptions of the corpus, and their lower case computed
\* once: every query lowers them again and gets the same strings.
CorpusTexts ==
    {PRINCIPLES[i].name : i \in PrincipleObjects}
    \cup {PRINCIPLES[i].description : i \in PrincipleObjects}

LoweredCorpusText == [text \in CorpusTexts |-> LowerRange(text, 1, Len(text))]

\* String.prototype.toLowerCase
ToLowerCase(s) ==
    IF s \in CorpusTexts THEN LoweredCorpusText[s] ELSE LowerRange(s, 1, Len(s))

WhiteSpace == {" ", "\t", "\n"}

\* String.prototype.trim
Trim(s) ==
    LET solid == {i \in 1..Len(s) : CharAt(s, i) \notin WhiteSpace}
        first == CHOOSE i \in solid : \A j \in solid : i <= j
        last == CHOOSE i \in solid : \A j \in solid : j <= i
    IN  IF solid = {} THEN "" ELSE SubSeq(s, first, last)

\* Variant of Includes in which the empty string occurs in no string.
IncludesNonEmpty(s, sub) ==
    /\ Len(sub) > 0
    /\ \E i \in 0..(Len(s) - Len(sub)) : SubSeq(s, i + 1, i + Len(sub)) = sub

\* String.prototype.includes: sub occurs in s as a contiguous substring.
Includes(s, sub) ==
    \E i \in 0..(Len(s) - Len(sub)) : SubSeq(s, i + 1, i + Len(sub)) = sub

-----------------------------------------------------------------------------
(* scorePrincipleByQuery, src/search/scoring.ts:4-47                       *)

EXACT_ID_MATCH == 100
NAME_CONTAINS == 80
TAG_EXACT == 70
TAG_PARTIAL == 50
DESCRIPTION_CONTAINS == 30
CATEGORY_MATCH == 20

\* Variant of NormalizeQuery that does not trim.
NormalizeQueryNoTrim(q) == ToLowerCase(q)

\* const normalizedQuery = query.toLowerCase().trim();
NormalizeQuery(q) == Trim(ToLowerCase(q))

\* Variant of IdMatches that accepts an id that merely contains the query.
IdMatchesLoosely(p, normalizedQuery) == Includes(p.id, normalizedQuery)

\* if (principle.id === normalizedQuery)
IdMatches(p, normalizedQuery) == p.id = normalizedQuery

\* Variant of NameScore that forgets to lowercase the name.
NameScoreCaseSensitive(p, normalizedQuery) ==
    IF Includes(p.name, normalizedQuery) THEN NAME_CONTAINS ELSE 0

\* if (principle.name.toLowerCase().includes(normalizedQuery))
NameScore(p, normalizedQuery) ==
    IF Includes(ToLowerCase(p.name), normalizedQuery) THEN NAME_CONTAINS ELSE 0

\* Variant of TagScore whose partial branch is not an else branch.
TagScoreBothBranches(tag, normalizedQuery) ==
    (IF tag = normalizedQuery THEN TAG_EXACT ELSE 0)
    + (IF Includes(tag, normalizedQuery) \/ Includes(normalizedQuery, tag)
       THEN TAG_PARTIAL ELSE 0)

\* The body of the loop over principle.tags.
TagScore(tag, normalizedQuery) ==
    IF tag = normalizedQuery THEN TAG_EXACT
    ELSE IF Includes(tag, normalizedQuery) \/ Includes(normalizedQuery, tag)
         THEN TAG_PARTIAL
         ELSE 0

\* for (const tag of principle.tags) { ... score += ... }
TagsScore(p, normalizedQuery) ==
    LET acc[k \in 0..Len(p.tags)] ==
            IF k = 0 THEN 0 ELSE acc[k - 1] + TagScore(p.tags[k], normalizedQuery)
    IN  acc[Len(p.tags)]

\* if (principle.description.toLowerCase().includes(normalizedQuery))
DescriptionScore(p, normalizedQuery) ==
    IF Includes(ToLowerCase(p.description), normalizedQuery)
    THEN DESCRIPTION_CONTAINS ELSE 0

\* if (principle.category.includes(normalizedQuery))
CategoryScore(p, normalizedQuery) ==
    IF Includes(p.category, normalizedQuery) THEN CATEGORY_MATCH ELSE 0

\* Variant of scorePrincipleByQuery whose exact-id branch adds to the score
\* instead of returning.
scorePrincipleByQueryNoReturn(p, q) ==
    LET normalizedQuery == NormalizeQuery(q)
    IN  (IF IdMatches(p, normalizedQuery) THEN EXACT_ID_MATCH ELSE 0)
        + NameScore(p, normalizedQuery)
        + TagsScore(p, normalizedQuery)
        + DescriptionScore(p, normalizedQuery)
        + CategoryScore(p, normalizedQuery)

\* Variant of scorePrincipleByQuery that scores the exact-id branch only.
scorePrincipleByQueryIdOnly(p, q) ==
    LET normalizedQuery == NormalizeQuery(q)
    IN  IF IdMatches(p, normalizedQuery) THEN EXACT_ID_MATCH ELSE 0

scorePrincipleByQuery(p, q) ==
    LET normalizedQuery == NormalizeQuery(q)
    IN  IF IdMatches(p, normalizedQuery) THEN EXACT_ID_MATCH
        ELSE NameScore(p, normalizedQuery)
             + TagsScore(p, normalizedQuery)
             + DescriptionScore(p, normalizedQuery)
             + CategoryScore(p, normalizedQuery)

-----------------------------------------------------------------------------
(* tokenize and removeStopWords, src/search/tokenizer.ts:3-11 and 103-113  *)

STOP_WORDS ==
    {"a", "an", "the", "is", "it", "to", "in", "of", "and", "or", "for",
     "on", "at", "by", "with", "from", "as", "be", "this", "that", "not",
     "but", "are", "was", "were", "been", "being", "have", "has", "had",
     "do", "does", "did", "will", "would", "could", "should", "may",
     "might", "can", "shall", "i", "you", "we", "they", "he", "she",
     "my", "your", "our", "their", "its", "me", "us", "them", "what",
     "how", "when", "where", "which", "who", "whom", "why"}

\* The characters the class [a-z0-9\-] accepts.
TokenChars == "abcdefghijklmnopqrstuvwxyz0123456789-"

TokenCharSet == {CharAt(TokenChars, i) : i \in 1..Len(TokenChars)}

IsTokenChar(c) == c \in TokenCharSet

\* The indices 1..n in order.
Indices(n) == [k \in 1..n |-> k]

RECURSIVE JoinRange(_, _, _)
\* The strings first..last of the sequence, concatenated (the range is
\* halved so that a long text needs no deep recursion).
JoinRange(strings, first, last) ==
    IF first > last THEN ""
    ELSE IF first = last THEN strings[first]
    ELSE LET middle == (first + last) \div 2
         IN  JoinRange(strings, first, middle) \o JoinRange(strings, middle + 1, last)

\* .replace(/[^a-z0-9\-]+/g, " "): every maximal run of characters outside
\* the class becomes one space.
ReplaceNonTokenRuns(s) ==
    LET StartsRunOrToken(k) ==
            \/ IsTokenChar(CharAt(s, k))
            \/ k = 1
            \/ IsTokenChar(CharAt(s, k - 1))
        kept == SelectSeq(Indices(Len(s)), StartsRunOrToken)
        out == [n \in 1..Len(kept) |->
                    IF IsTokenChar(CharAt(s, kept[n])) THEN CharAt(s, kept[n]) ELSE " "]
    IN  JoinRange(out, 1, Len(out))

\* .split(/\s+/): the pieces between the maximal whitespace runs, the empty
\* pieces in front of a leading run and behind a trailing run included.
SplitWhitespace(s) ==
    LET length == Len(s)
        IsSpace(k) == CharAt(s, k) \in WhiteSpace
        EndsRun(k) == IsSpace(k) /\ (k = length \/ ~IsSpace(k + 1))
        runEnds == SelectSeq(Indices(length), EndsRun)
        starts == <<1>> \o [n \in 1..Len(runEnds) |-> runEnds[n] + 1]
        PieceEnd(from) ==
            LET spaces == {k \in from..length : IsSpace(k)}
            IN  IF spaces = {} THEN length
                ELSE (CHOOSE k \in spaces : \A other \in spaces : k <= other) - 1
    IN  [n \in 1..Len(starts) |-> SubSeq(s, starts[n], PieceEnd(starts[n]))]

\* Variant of LongerThanOne that also keeps one-character tokens.
NotEmpty(token) == Len(token) > 0

\* .filter((token) => token.length > 1)
LongerThanOne(token) == Len(token) > 1

\* A token with its hyphens deleted.
WithoutHyphens(token) ==
    LET out[k \in 0..Len(token)] ==
            IF k = 0 THEN ""
            ELSE IF CharAt(token, k) = "-" THEN out[k - 1]
            ELSE out[k - 1] \o CharAt(token, k)
    IN  out[Len(token)]

\* Variant of tokenize that deletes the hyphens of the tokens it returns:
\* .filter(...).map((token) => token.replace(/-/g, "")).
tokenizeDroppingHyphens(text) ==
    LET kept == SelectSeq(SplitWhitespace(ReplaceNonTokenRuns(ToLowerCase(text))),
                          LongerThanOne)
    IN  [n \in 1..Len(kept) |-> WithoutHyphens(kept[n])]

tokenize(text) ==
    SelectSeq(SplitWhitespace(ReplaceNonTokenRuns(ToLowerCase(text))),
              LongerThanOne)

NotStopWord(token) == token \notin STOP_WORDS

\* Variant of removeStopWords that keeps every token.
removeStopWordsKeepingAll(toks) == toks

\* Variant of removeStopWords that also drops repeated tokens.
removeStopWordsAndRepeats(toks) ==
    LET firsts == {n \in 1..Len(toks) : \A m \in 1..(n - 1) : toks[m] # toks[n]}
        kept[n \in 0..Len(toks)] ==
            IF n = 0 THEN <<>>
            ELSE IF n \in firsts /\ NotStopWord(toks[n])
                 THEN Append(kept[n - 1], toks[n])
                 ELSE kept[n - 1]
    IN  kept[Len(toks)]

\* tokens.filter((token) => !STOP_WORDS.has(token))
removeStopWords(toks) == SelectSeq(toks, NotStopWord)

-----------------------------------------------------------------------------
(* detectCategoryBoosts, src/search/tokenizer.ts:13-101 and 115-127        *)

CATEGORIES ==
    <<"naming", "functions", "comments", "formatting", "error-handling",
      "unit-testing", "classes", "solid", "code-smells",
      "objects-and-data-structures", "concurrency", "systems", "emergence">>

\* The own properties of the CATEGORY_KEYWORDS object literal, in source
\* order, as <<key, value>> pairs.
CATEGORY_KEYWORDS ==
    << <<"name", "naming">>, <<"names", "naming">>, <<"naming", "naming">>,
       <<"variable", "naming">>, <<"variables", "naming">>,
       <<"function", "functions">>, <<"functions", "functions">>,
       <<"method", "functions">>, <<"methods", "functions">>,
       <<"argument", "functions">>, <<"arguments", "functions">>,
       <<"parameter", "functions">>, <<"parameters", "functions">>,
       <<"nesting", "functions">>, <<"nested", "functions">>,
       <<"guard", "functions">>, <<"conditional", "functions">>,
       <<"if-else", "functions">>,
       <<"comment", "comments">>, <<"comments", "comments">>,
       <<"documentation", "comments">>, <<"javadoc", "comments">>,
       <<"jsdoc", "comments">>,
       <<"format", "formatting">>, <<"formatting", "formatting">>,
       <<"indentation", "formatting">>, <<"whitespace", "formatting">>,
       <<"spacing", "formatting">>,
       <<"error", "error-handling">>, <<"errors", "error-handling">>,
       <<"exception", "error-handling">>, <<"exceptions", "error-handling">>,
       <<"try-catch", "error-handling">>, <<"null", "error-handling">>,
       <<"test", "unit-testing">>, <<"tests", "unit-testing">>,
       <<"testing", "unit-testing">>, <<"unit", "unit-testing">>,
       <<"assert", "unit-testing">>, <<"assertion", "unit-testing">>,
       <<"class", "classes">>, <<"classes", "classes">>,
       <<"cohesion", "classes">>, <<"responsibility", "classes">>,
       <<"solid", "solid">>, <<"srp", "solid">>, <<"ocp", "solid">>,
       <<"lsp", "solid">>, <<"isp", "solid">>, <<"dip", "solid">>,
       <<"smell", "code-smells">>, <<"smells", "code-smells">>,
       <<"code-smell", "code-smells">>, <<"duplication", "code-smells">>,
       <<"magic-number", "code-smells">>, <<"dead-code", "code-smells">>,
       <<"object", "objects-and-data-structures">>,
       <<"objects", "objects-and-data-structures">>,
       <<"data", "objects-and-data-structures">>,
       <<"dto", "objects-and-data-structures">>,
       <<"demeter", "objects-and-data-structures">>,
       <<"encapsulation", "objects-and-data-structures">>,
       <<"concurrency", "concurrency">>, <<"async", "concurrency">>,
       <<"parallel", "concurrency">>, <<"thread", "concurrency">>,
       <<"race", "concurrency">>,
       <<"system", "systems">>, <<"systems", "systems">>,
       <<"injection", "systems">>, <<"dependency-injection", "systems">>,
       <<"emergence", "emergence">>, <<"simple", "emergence">>,
       <<"simplicity", "emergence">>, <<"design", "emergence">> >>

KeywordKeys == {CATEGORY_KEYWORDS[i][1] : i \in 1..Len(CATEGORY_KEYWORDS)}

\* CATEGORY_KEYWORDS is a plain object literal: its prototype is
\* Object.prototype, whose properties a [token] lookup also finds.
OBJECT_PROTOTYPE_KEYS ==
    {"constructor", "toString", "toLocaleString", "valueOf", "hasOwnProperty",
     "isPrototypeOf", "propertyIsEnumerable", "__proto__",
     "__defineGetter__", "__defineSetter__", "__lookupGetter__",
     "__lookupSetter__"}

\* The function or object an inherited property evaluates to.
InheritedValue(key) == "Object.prototype." \o key

Undefined == "undefined"

\* CATEGORY_KEYWORDS[token]
KeywordLookup(token) ==
    IF token \in KeywordKeys
    THEN LET i == CHOOSE j \in 1..Len(CATEGORY_KEYWORDS) :
                      CATEGORY_KEYWORDS[j][1] = token
         IN  CATEGORY_KEYWORDS[i][2]
    ELSE IF token \in OBJECT_PROTOTYPE_KEYS THEN InheritedValue(token)
    ELSE Undefined

\* if (category): undefined is falsy, a non-empty string, a function and an
\* object are truthy.
Truthy(value) == value # Undefined /\ value # ""

\* new Map(): a Map is a function from its keys to their values.
EmptyMap == [k \in {} |-> 0]

\* Variant of MapGetOrZero that never finds the key.
MapGetZero(map, key) == 0

\* boosts.get(key) ?? 0
MapGetOrZero(map, key) == IF key \in DOMAIN map THEN map[key] ELSE 0

\* boosts.set(key, value)
MapSet(map, key, value) ==
    [k \in (DOMAIN map) \cup {key} |-> IF k = key THEN value ELSE map[k]]

\* Variant of detectCategoryBoosts that returns from inside the loop at the
\* first token that has a category.
detectCategoryBoostsFirstHit(toks) ==
    LET hits == {n \in 1..Len(toks) : Truthy(KeywordLookup(toks[n]))}
        first == CHOOSE n \in hits : \A m \in hits : n <= m
    IN  IF hits = {} THEN EmptyMap
        ELSE MapSet(EmptyMap, KeywordLookup(toks[first]), 1)

detectCategoryBoosts(toks) ==
    LET boosts[n \in 0..Len(toks)] ==
            IF n = 0 THEN EmptyMap
            ELSE LET category == KeywordLookup(toks[n])
                     current == MapGetOrZero(boosts[n - 1], category)
                 IN  IF Truthy(category)
                     THEN MapSet(boosts[n - 1], category, current + 1)
                     ELSE boosts[n - 1]
    IN  boosts[Len(toks)]

-----------------------------------------------------------------------------
(* scorePrincipleByTokens, src/search/scoring.ts:13 and 49-64              *)

CATEGORY_BOOST_MULTIPLIER == 15

\* Variant of TokensScore that scores every distinct token once.
TokensScoreDistinct(p, toks) ==
    LET firsts == {n \in 1..Len(toks) : \A m \in 1..(n - 1) : toks[m] # toks[n]}
        acc[n \in 0..Len(toks)] ==
            IF n = 0 THEN 0
            ELSE acc[n - 1]
                 + (IF n \in firsts THEN scorePrincipleByQuery(p, toks[n]) ELSE 0)
    IN  acc[Len(toks)]

\* Variant of TokensScore that scores the first token only.
TokensScoreFirstOnly(p, toks) ==
    IF Len(toks) = 0 THEN 0 ELSE scorePrincipleByQuery(p, toks[1])

\* for (const token of tokens) { score += scorePrincipleByQuery(...) }
TokensScore(p, toks) ==
    LET acc[n \in 0..Len(toks)] ==
            IF n = 0 THEN 0 ELSE acc[n - 1] + scorePrincipleByQuery(p, toks[n])
    IN  acc[Len(toks)]

\* Variant of BoostScore that subtracts the boost.
BoostScoreSubtracted(p, boosts) ==
    0 - MapGetOrZero(boosts, p.category) * CATEGORY_BOOST_MULTIPLIER

\* const boost = categoryBoosts.get(principle.category) ?? 0;
\* score += boost * CATEGORY_BOOST_MULTIPLIER;
BoostScore(p, boosts) ==
    MapGetOrZero(boosts, p.category) * CATEGORY_BOOST_MULTIPLIER

scorePrincipleByTokens(p, toks, boosts) ==
    TokensScore(p, toks) + BoostScore(p, boosts)

-----------------------------------------------------------------------------
(* The tool handlers, src/tools/search-principle.ts and                    *)
(* src/tools/list-principles.ts, with src/data/categories.ts:35-37 and     *)
(* src/data/principles.ts:1787-1789.                                       *)

MAX_DETAILED_RESULTS == 3
SEARCH_MAX_TOTAL_RESULTS == 10
CONTEXT_MAX_TOTAL_RESULTS == 8

\* Array.prototype.slice(start, end) for 0 <= start <= end.
Slice(s, start, end) ==
    SubSeq(s, start + 1, IF end < Len(s) THEN end ELSE Len(s))

Response(tool, kind, detailed, remaining, groups) ==
    [tool |-> tool, kind |-> kind, detailed |-> detailed,
     remaining |-> remaining, groups |-> groups]

\* Variant of SearchResponse whose summary list runs to the end of the
\* ranked array.
SearchResponseUnlimited(tool, rankedArray, maxTotal) ==
    IF Len(rankedArray) = 0
    THEN Response(tool, "no-principles-found", <<>>, <<>>, <<>>)
    ELSE Response(tool, "results",
                  Slice(rankedArray, 0, MAX_DETAILED_RESULTS),
                  Slice(rankedArray, MAX_DETAILED_RESULTS, Len(rankedArray)), <<>>)

\* Variant of SearchResponse without the ranked.length === 0 test.
SearchResponseUnchecked(tool, rankedArray, maxTotal) ==
    Response(tool, "results",
             Slice(rankedArray, 0, MAX_DETAILED_RESULTS),
             Slice(rankedArray, MAX_DETAILED_RESULTS, maxTotal), <<>>)

\* What both search handlers build from the ranked array: the "No principles
\* found" text, or the detailed part and the summary list.
SearchResponse(tool, rankedArray, maxTotal) ==
    IF Len(rankedArray) = 0
    THEN Response(tool, "no-principles-found", <<>>, <<>>, <<>>)
    ELSE Response(tool, "results",
                  Slice(rankedArray, 0, MAX_DETAILED_RESULTS),
                  Slice(rankedArray, MAX_DETAILED_RESULTS, maxTotal), <<>>)

\* The score function of search-principle.
QueryScores(q) ==
    [i \in PrincipleObjects |-> scorePrincipleByQuery(PRINCIPLES[i], q)]

\* Variant of TokenScores that scores without the boost map.
TokenScoresWithoutBoosts(toks, boosts) ==
    [i \in PrincipleObjects |-> scorePrincipleByTokens(PRINCIPLES[i], toks, EmptyMap)]

\* The score function of search-by-context.
TokenScores(toks, boosts) ==
    [i \in PrincipleObjects |-> scorePrincipleByTokens(PRINCIPLES[i], toks, boosts)]

\* Variant of isValidCategory that compares without regard to case.
isValidCategoryAnyCase(value) ==
    \E i \in 1..Len(CATEGORIES) : CATEGORIES[i] = ToLowerCase(value)

\* CATEGORIES.includes(value)
isValidCategory(value) == \E i \in 1..Len(CATEGORIES) : CATEGORIES[i] = value

InCategory(i, cat) == PRINCIPLES[i].category = cat

\* PRINCIPLES.filter((principle) => principle.category === category)
filterByCategory(corpus, cat) ==
    LET OfCategory(i) == InCategory(i, cat)
    IN  SelectSeq(corpus, OfCategory)

\* groupByCategory: a Map from category to the principles of that category,
\* as <<category, principles>> pairs in insertion order (a Map keeps its
\* keys in the order of their first set).
groupByCategory(corpus) ==
    LET length == Len(corpus)
        CategoryAt(n) == PRINCIPLES[corpus[n]].category
        FirstOfCategory(n) == \A m \in 1..(n - 1) : CategoryAt(m) # CategoryAt(n)
        firsts == SelectSeq(Indices(length), FirstOfCategory)
    IN  [g \in 1..Len(firsts) |->
            <<CategoryAt(firsts[g]), filterByCategory(corpus, CategoryAt(firsts[g]))>>]

ListResponse(corpus, cat) ==
    IF Truthy(cat) /\ ~isValidCategory(cat)
    THEN Response("list-principles", "invalid-category", <<>>, <<>>, <<>>)
    ELSE IF Truthy(cat)
    THEN Response("list-principles", "list", <<>>, filterByCategory(corpus, cat), <<>>)
    ELSE Response("list-principles", "catalog", <<>>, <<>>, groupByCategory(corpus))

-----------------------------------------------------------------------------
(* The catalog resources, registerCatalogResources, and the                *)
(* clean-code-review prompt, src/prompts/code-review.ts.                   *)

CATEGORY_LABELS ==
    [c \in {CATEGORIES[i] : i \in 1..Len(CATEGORIES)} |->
        CASE c = "naming" -> "Meaningful Names"
          [] c = "functions" -> "Functions"
          [] c = "comments" -> "Comments"
          [] c = "formatting" -> "Formatting"
          [] c = "error-handling" -> "Error Handling"
          [] c = "unit-testing" -> "Unit Testing"
          [] c = "classes" -> "Classes"
          [] c = "solid" -> "SOLID Principles"
          [] c = "code-smells" -> "Code Smells"
          [] c = "objects-and-data-structures" -> "Objects and Data Structures"
          [] c = "concurrency" -> "Concurrency"
          [] c = "systems" -> "Systems"
          [] c = "emergence" -> "Emergence"]

\* buildGroupedCatalog: an object from category label to the principles with
\* that label, as <<label, principles>> pairs in the order the keys were set.
buildGroupedCatalog(corpus) ==
    LET length == Len(corpus)
        LabelAt(n) == CATEGORY_LABELS[PRINCIPLES[corpus[n]].category]
        FirstOfLabel(n) == \A m \in 1..(n - 1) : LabelAt(m) # LabelAt(n)
        firsts == SelectSeq(Indices(length), FirstOfLabel)
    IN  [g \in 1..Len(firsts) |->
            LET WithLabel(i) == CATEGORY_LABELS[PRINCIPLES[i].category] = LabelAt(firsts[g])
            IN  <<LabelAt(firsts[g]), SelectSeq(corpus, WithLabel)>>]

\* PRINCIPLES.find((principle) => principle.id === id): the first principle
\* with this id, 0 for undefined.
findPrincipleById(corpus, id) ==
    LET hits == {n \in 1..Len(corpus) : PRINCIPLES[corpus[n]].id = id}
    IN  IF hits = {} THEN 0
        ELSE corpus[CHOOSE n \in hits : \A m \in hits : n <= m]

CatalogResponse(corpus) ==
    Response("catalog", "catalog", <<>>, <<>>, buildGroupedCatalog(corpus))

PrincipleListResponse(corpus) ==
    Response("principle-list", "list", <<>>, <<>> \o corpus, <<>>)

PrincipleResponse(corpus, id) ==
    IF findPrincipleById(corpus, id) = 0
    THEN Response("principle", "not-found", <<>>, <<>>, <<>>)
    ELSE Response("principle", "principle", <<findPrincipleById(corpus, id)>>, <<>>, <<>>)

DEFAULT_FOCUS_CATEGORIES == <<"naming", "functions", "error-handling", "code-smells">>

\* raw.split(","): the pieces between the commas, empty pieces included.
SplitComma(s) ==
    LET length == Len(s)
        IsComma(k) == CharAt(s, k) = ","
        commas == SelectSeq(Indices(length), IsComma)
        starts == <<1>> \o [n \in 1..Len(commas) |-> commas[n] + 1]
        PieceEnd(from) ==
            LET later == {k \in from..length : IsComma(k)}
            IN  IF later = {} THEN length
                ELSE (CHOOSE k \in later : \A other \in later : k <= other) - 1
    IN  [n \in 1..Len(starts) |-> SubSeq(s, starts[n], PieceEnd(starts[n]))]

\* .map((s) => s.trim())
MapTrim(pieces) == [n \in 1..Len(pieces) |-> Trim(pieces[n])]

\* Variant of parseFocusCategories that returns the parsed list even when
\* it is empty.
parseFocusCategoriesNoDefault(raw) ==
    IF ~Truthy(raw) THEN DEFAULT_FOCUS_CATEGORIES
    ELSE SelectSeq(MapTrim(SplitComma(raw)), isValidCategory)

parseFocusCategories(raw) ==
    IF ~Truthy(raw) THEN DEFAULT_FOCUS_CATEGORIES
    ELSE LET parsed == SelectSeq(MapTrim(SplitComma(raw)), isValidCategory)
         IN  IF Len(parsed) > 0 THEN parsed ELSE DEFAULT_FOCUS_CATEGORIES

\* PRINCIPLES.filter((p) => categories.includes(p.category))
relevantPrinciples(corpus, categories) ==
    LET Focused(i) == \E n \in 1..Len(categories) : categories[n] = PRINCIPLES[i].category
    IN  SelectSeq(corpus, Focused)

PromptResponse(corpus, raw) ==
    Response("clean-code-review", "prompt",
             relevantPrinciples(corpus, parseFocusCategories(raw)), <<>>,
             parseFocusCategories(raw))

-----------------------------------------------------------------------------
(* Specification SpecRank: rankPrinciples applied to every input array of  *)
(* at most MaxPrinciples principles and every score function into          *)
(* -1..MaxScore.                                                           *)

PrincipleRefs == {"p1", "p2", "p3"}

ScoreValues == (-1)..MaxScore

SeqsUpTo(S, n) == UNION {[1..k -> S] : k \in 0..n}

NoResponse == Response("none", "none", <<>>, <<>>, <<>>)

NoPrinciple ==
    [id |-> "", name |-> "", category |-> "", description |-> "", tags |-> <<>>]

InitRank ==
    /\ pc = "call"
    /\ principles \in SeqsUpTo(PrincipleRefs, MaxPrinciples)
    /\ scoreFn \in [PrincipleRefs -> ScoreValues]
    /\ ranked = <<>>
    /\ rankedIsInput = FALSE
    /\ principle = NoPrinciple
    /\ query = ""
    /\ tokens = <<>>
    /\ categoryBoosts = <<>>
    /\ score = 0
    /\ context = ""
    /\ requestedCategory = ""
    /\ response = NoResponse
    /\ served = <<>>

RankPrinciples ==
    /\ pc = "call"
    /\ LET result == rankPrinciples(<<principles>>, 1, scoreFn)
       IN  /\ principles' = result.heap[1]
           /\ ranked' = result.heap[result.ref]
           /\ rankedIsInput' = (result.ref = 1)
    /\ pc' = "ranked"
    /\ UNCHANGED <<scoreFn, principle, query, tokens, categoryBoosts, score,
                   context, requestedCategory, response, served>>

NextRank == RankPrinciples

SpecRank == InitRank /\ [][NextRank]_vars

Count(s, x) == Cardinality({i \in 1..Len(s) : s[i] = x})

KeptIndices == {i \in 1..Len(principles) : scoreFn[principles[i]] > 0}

\* C1: rankPrinciples returns only principles whose score is strictly
\* positive, and every adjacent pair (a, b) of the result has
\* score(a) >= score(b).
C1_RankPositiveDescending ==
    pc = "ranked" =>
        /\ \A i \in 1..Len(ranked) : scoreFn[ranked[i]] > 0
        /\ \A i \in 1..(Len(ranked) - 1) :
               scoreFn[ranked[i]] >= scoreFn[ranked[i + 1]]

\* An input of three principles, one of them scoring <= 0, whose two kept
\* principles arrive in ascending score order and leave in descending order.
C1_Witness ==
    /\ pc = "ranked"
    /\ Len(principles) = 3
    /\ Len(ranked) = 2
    /\ \E i, j \in KeptIndices :
          i < j /\ scoreFn[principles[i]] < scoreFn[principles[j]]
    /\ scoreFn[ranked[1]] > scoreFn[ranked[2]]

\* C2: rankPrinciples is stable: the result lists the kept positions of the
\* input so that two positions with equal scores appear in input order.
C2_RankStable ==
    pc = "ranked" =>
        /\ Len(ranked) = Cardinality(KeptIndices)
        /\ \E f \in [1..Len(ranked) -> 1..Len(principles)] :
              /\ \A k \in 1..Len(ranked) :
                    f[k] \in KeptIndices /\ ranked[k] = principles[f[k]]
              /\ \A k, l \in 1..Len(ranked) :
                    k < l => /\ f[k] # f[l]
                             /\ scoreFn[ranked[k]] = scoreFn[ranked[l]]
                                    => f[k] < f[l]

\* Two distinct principles with the same positive score, ranked in the
\* order in which they occur in the input.
C2_Witness ==
    /\ pc = "ranked"
    /\ \E k \in 1..(Len(ranked) - 1) :
          /\ ranked[k] # ranked[k + 1]
          /\ scoreFn[ranked[k]] = scoreFn[ranked[k + 1]]
          /\ Count(principles, ranked[k]) = 1
          /\ Count(principles, ranked[k + 1]) = 1

\* C3: rankPrinciples leaves its input array as it was and returns a new
\* array holding exactly the input principles that score > 0, one entry
\* per input entry, as bare principles.
C3_RankFrame ==
    [][pc = "call" /\ pc' = "ranked" =>
          /\ principles' = principles
          /\ ~rankedIsInput'
          /\ \A k \in 1..Len(ranked') : ranked'[k] \in PrincipleRefs
          /\ \A p \in PrincipleRefs :
                Count(ranked', p) =
                    IF scoreFn[p] > 0 THEN Count(principles, p) ELSE 0]_vars

\* A call whose result is neither the input nor the filtered input in input
\* order: one principle was dropped and two were swapped.
C3_Witness ==
    /\ pc = "ranked"
    /\ Len(principles) = 3
    /\ Len(ranked) = 2
    /\ ranked # SelectSeq(principles, LAMBDA p : scoreFn[p] > 0)

-----------------------------------------------------------------------------
(* Specification SpecQuery: scorePrincipleByQuery applied to every         *)
(* principle record and every query drawn from the sets below.             *)

SampleIds == {"solid", "srp", "solid-srp"}

SampleNames == {"SOLID", "Single (SRP)", "Keep It Small"}

SampleCategories == {"solid", "classes"}

SampleDescriptions == {"Solid code has one reason to change.", "Keep classes small."}

SampleTags == {"solid", "srp", "solid-design"}

SamplePrinciples ==
    [id : SampleIds, name : SampleNames, category : SampleCategories,
     description : SampleDescriptions, tags : SeqsUpTo(SampleTags, MaxTags)]

SampleQueries ==
    {"", "  ", "solid", " SOLID\t", "srp", "SRP", "solid-srp", "single",
     "s", "small", "zzz"}

InitQuery ==
    /\ pc = "call"
    /\ principles = <<>>
    /\ scoreFn = <<>>
    /\ ranked = <<>>
    /\ rankedIsInput = FALSE
    /\ principle \in SamplePrinciples
    /\ query \in SampleQueries
    /\ tokens = <<>>
    /\ categoryBoosts = <<>>
    /\ score = 0
    /\ context = ""
    /\ requestedCategory = ""
    /\ response = NoResponse
    /\ served = <<>>

ScorePrincipleByQuery ==
    /\ pc = "call"
    /\ score' = scorePrincipleByQuery(principle, query)
    /\ pc' = "scoredByQuery"
    /\ UNCHANGED <<principles, scoreFn, ranked, rankedIsInput, principle, query,
                   tokens, categoryBoosts,
                   context, requestedCategory, response, served>>

NextQuery == ScorePrincipleByQuery

SpecQuery == InitQuery /\ [][NextQuery]_vars

Bit(b) == IF b THEN 1 ELSE 0

normalized == NormalizeQuery(query)

NameMatches == Includes(ToLowerCase(principle.name), normalized)

DescriptionMatches == Includes(ToLowerCase(principle.description), normalized)

CategoryMatches == Includes(principle.category, normalized)

ExactTags == {k \in 1..Len(principle.tags) : principle.tags[k] = normalized}

PartialTags ==
    {k \in 1..Len(principle.tags) :
        /\ principle.tags[k] # normalized
        /\ \/ Includes(principle.tags[k], normalized)
           \/ Includes(normalized, principle.tags[k])}

\* C4: when the normalized query (lowercased, trimmed) equals the
\* principle's id, scorePrincipleByQuery returns exactly 100, with no name,
\* tag, description or category contribution added.
C4_ExactIdReturns100 ==
    pc = "scoredByQuery" /\ normalized = principle.id => score = EXACT_ID_MATCH

\* A raw query that only equals the id after normalization, scored against a
\* principle whose name, tags, description and category all match it too.
C4_Witness ==
    /\ pc = "scoredByQuery"
    /\ normalized = principle.id
    /\ query # principle.id
    /\ NameMatches /\ DescriptionMatches /\ CategoryMatches
    /\ ExactTags # {}
    /\ score = 100

\* C5 as stated: for a query equal to the id of some principle, a principle
\* with a different id never obtains a score of 100.
C5_OnlyIdMatchScores100 ==
    pc = "scoredByQuery" /\ normalized \in SampleIds /\ principle.id # normalized
        => score # 100

\* C5 as amended: for a query equal to the id of some principle, a principle
\* with a different id obtains 100 only as a sum of at least two name, tag,
\* description or category contributions, never through the exact-id branch.
C5_OtherIdScores100OnlyBySum ==
    pc = "scoredByQuery" /\ normalized \in SampleIds /\ principle.id # normalized
               /\ score = 100
        => Bit(NameMatches) + Cardinality(ExactTags) + Cardinality(PartialTags)
           + Bit(DescriptionMatches) + Bit(CategoryMatches) >= 2

\* A principle that totals 100 for a query equal to another principle's id.
C5_Witness ==
    /\ pc = "scoredByQuery"
    /\ normalized \in SampleIds
    /\ principle.id # normalized
    /\ score = 100

\* C6: when the normalized query differs from the principle's id, the score
\* is 80*[name contains query] + 70 per tag equal to the query + 50 per
\* other tag that contains the query or is contained in it +
\* 30*[description contains query] + 20*[category contains query].
C6_AdditiveScore ==
    pc = "scoredByQuery" /\ normalized # principle.id =>
        score = 80 * Bit(NameMatches)
                + 70 * Cardinality(ExactTags)
                + 50 * Cardinality(PartialTags)
                + 30 * Bit(DescriptionMatches)
                + 20 * Bit(CategoryMatches)

\* Every branch contributes at once: one tag equals the query (and so also
\* contains it), another tag matches partially.
C6_Witness ==
    /\ pc = "scoredByQuery"
    /\ normalized # principle.id
    /\ NameMatches /\ DescriptionMatches /\ CategoryMatches
    /\ ExactTags # {} /\ PartialTags # {}
    /\ score = 80 + 70 + 50 + 30 + 20

\* C7: for a non-empty query that occurs in the name (case-insensitively)
\* and is not the id, the name branch adds exactly 80 to what the tag,
\* description and category branches contribute, i.e. to the score of the
\* same principle with its name blanked.
C7_NameAdds80 ==
    pc = "scoredByQuery" /\ normalized # "" /\ normalized # principle.id /\ NameMatches
        => score = 80 + scorePrincipleByQuery([principle EXCEPT !.name = ""], query)

\* A name that matches only case-insensitively, with other branches
\* contributing as well.
C7_Witness ==
    /\ pc = "scoredByQuery"
    /\ normalized # "" /\ normalized # principle.id
    /\ NameMatches
    /\ ~Includes(principle.name, normalized)
    /\ score > 80

-----------------------------------------------------------------------------
(* Specification SpecTokens: detectCategoryBoosts and the two scoring      *)
(* functions applied to every token array of at most MaxTokens tokens, to  *)
(* boost maps given by the caller or built by detectCategoryBoosts.        *)

TokenPrinciples ==
    [id : {"solid", "srp"}, name : {"SOLID"}, category : {"solid", "functions"},
     description : {"Keep classes small."},
     tags : {<<>>, <<"srp">>}]

SampleTokens == {"function", "parameters", "srp", "constructor"}

SampleBoosts ==
    {EmptyMap, MapSet(EmptyMap, "solid", 2), MapSet(EmptyMap, "functions", -1)}

InitTokens ==
    /\ pc = "call"
    /\ principles = <<>>
    /\ scoreFn = <<>>
    /\ ranked = <<>>
    /\ rankedIsInput = FALSE
    /\ principle \in TokenPrinciples
    /\ query \in {"SRP", "zzz"}
    /\ tokens \in SeqsUpTo(SampleTokens, MaxTokens)
    /\ categoryBoosts \in SampleBoosts
    /\ score = 0
    /\ context = ""
    /\ requestedCategory = ""
    /\ response = NoResponse
    /\ served = <<>>

DetectCategoryBoosts ==
    /\ pc = "call"
    /\ categoryBoosts' = detectCategoryBoosts(tokens)
    /\ pc' = "detected"
    /\ UNCHANGED <<principles, scoreFn, ranked, rankedIsInput, principle, query,
                   tokens, score,
                   context, requestedCategory, response, served>>

ScorePrincipleByTokens ==
    /\ pc \in {"call", "detected"}
    /\ score' = scorePrincipleByTokens(principle, tokens, categoryBoosts)
    /\ pc' = "scoredByTokens"
    /\ UNCHANGED <<principles, scoreFn, ranked, rankedIsInput, principle, query,
                   tokens, categoryBoosts,
                   context, requestedCategory, response, served>>

NextTokens ==
    \/ DetectCategoryBoosts
    \/ ScorePrincipleByTokens
    \/ ScorePrincipleByQuery

SpecTokens == InitTokens /\ [][NextTokens]_vars

DistinctTokens == {tokens[n] : n \in 1..Len(tokens)}

RECURSIVE SumByToken(_)
SumByToken(S) ==
    IF S = {} THEN 0
    ELSE LET t == CHOOSE x \in S : TRUE
         IN  Count(tokens, t) * scorePrincipleByQuery(principle, t)
             + SumByToken(S \ {t})

\* C8: scorePrincipleByTokens equals the sum of scorePrincipleByQuery over
\* the tokens, each token counted once per occurrence, plus 15 times the
\* boost of the principle's category, a category missing from the map
\* counting as 0.
C8_TokensScoreIsSumPlusBoost ==
    pc = "scoredByTokens" =>
        score = SumByToken(DistinctTokens)
                + 15 * (IF principle.category \in DOMAIN categoryBoosts
                        THEN categoryBoosts[principle.category] ELSE 0)

\* A token equal to the principle's id occurs twice (100 each) and the
\* principle's category has a boost.
C8_Witness ==
    /\ pc = "scoredByTokens"
    /\ Count(tokens, principle.id) = 2
    /\ principle.category \in DOMAIN categoryBoosts
    /\ categoryBoosts[principle.category] > 0
    /\ score >= 200 + 15

\* C9: every score returned by scorePrincipleByQuery, and every score
\* returned by scorePrincipleByTokens for a boost map built by
\* detectCategoryBoosts, is non-negative.
C9_ScoresNonNegative ==
    /\ pc = "scoredByQuery" => score >= 0
    /\ pc = "scoredByTokens" /\ categoryBoosts = detectCategoryBoosts(tokens)
          => score >= 0

\* A token score computed with a detected boost for the principle's category.
C9_Witness ==
    /\ pc = "scoredByTokens"
    /\ categoryBoosts = detectCategoryBoosts(tokens)
    /\ principle.category \in DOMAIN categoryBoosts
    /\ score > 0

KeywordHits(c) ==
    {n \in 1..Len(tokens) :
        \E i \in 1..Len(CATEGORY_KEYWORDS) :
            CATEGORY_KEYWORDS[i] = <<tokens[n], c>>}

CategorySet == {CATEGORIES[i] : i \in 1..Len(CATEGORIES)}

\* C10: the map returned by detectCategoryBoosts holds, for each category,
\* the number of tokens (with multiplicity) that the Category Keyword Table
\* maps to it; tokens that are not keys of the table change nothing and a
\* category hit by no token is absent.
C10_BoostsCountKeywordHits ==
    pc = "detected" =>
        /\ DOMAIN categoryBoosts = {c \in CategorySet : KeywordHits(c) # {}}
        /\ \A c \in DOMAIN categoryBoosts :
              categoryBoosts[c] = Cardinality(KeywordHits(c))

\* The sum of the counts of a boost map.
RECURSIVE BoostTotal(_)
BoostTotal(map) ==
    IF DOMAIN map = {} THEN 0
    ELSE LET key == CHOOSE k \in DOMAIN map : TRUE
         IN  map[key] + BoostTotal([k \in DOMAIN map \ {key} |-> map[k]])

\* C29: for every token sequence of words over [a-z0-9-], in the Category
\* Keyword Table or not, every key of the map detectCategoryBoosts returns is
\* one of the 13 categories, every count is an integer of at least 1, and
\* the counts add up to at most the number of tokens.
C29_BoostMapIsOverCategories ==
    pc = "detected" =>
        /\ DOMAIN categoryBoosts \subseteq CategorySet
        /\ \A key \in DOMAIN categoryBoosts :
              categoryBoosts[key] \in Nat /\ categoryBoosts[key] >= 1
        /\ BoostTotal(categoryBoosts) <= Len(tokens)

\* The arrangements of the token array: tokens[f[1]], ..., tokens[f[n]] for
\* every permutation f of its positions.
Permutations(n) ==
    {f \in [1..n -> 1..n] : \A i, j \in 1..n : i # j => f[i] # f[j]}

Permuted(toks, f) == [n \in 1..Len(toks) |-> toks[f[n]]]

\* C11: detectCategoryBoosts returns the same categories with the same
\* counts for every reordering of its tokens.
C11_BoostsOrderInvariant ==
    pc = "detected" =>
        \A f \in Permutations(Len(tokens)) :
            detectCategoryBoosts(Permuted(tokens, f)) = categoryBoosts

\* Tokens of two categories, one of them hit twice, in an order that is not
\* sorted by category.
C11_Witness ==
    /\ pc = "detected"
    /\ Len(tokens) = 3
    /\ tokens[1] # tokens[2] /\ tokens[1] = tokens[3]
    /\ Cardinality(DOMAIN categoryBoosts) = 2
    /\ \E c \in DOMAIN categoryBoosts : categoryBoosts[c] = 2

-----------------------------------------------------------------------------
(* Specification SpecTokenizer: tokenize, then removeStopWords, applied to *)
(* every text made of at most MaxPieces of the pieces below.               *)

MaxPieces == 5

TextPieces == {"Sr7", "the", " ", "-", "!"}

RECURSIVE Texts(_)
Texts(n) ==
    IF n = 0 THEN {""}
    ELSE Texts(n - 1) \cup {t \o piece : t \in Texts(n - 1), piece \in TextPieces}

InitTokenizer ==
    /\ pc = "call"
    /\ principles = <<>>
    /\ scoreFn = <<>>
    /\ ranked = <<>>
    /\ rankedIsInput = FALSE
    /\ principle = NoPrinciple
    /\ query = ""
    /\ tokens = <<>>
    /\ categoryBoosts = <<>>
    /\ score = 0
    /\ context \in Texts(MaxPieces)
    /\ requestedCategory = ""
    /\ response = NoResponse
    /\ served = <<>>

Tokenize ==
    /\ pc = "call"
    /\ tokens' = tokenize(context)
    /\ pc' = "tokenized"
    /\ UNCHANGED <<principles, scoreFn, ranked, rankedIsInput, principle, query,
                   categoryBoosts, score, context, requestedCategory, response,
                   served>>

RemoveStopWords ==
    /\ pc = "tokenized"
    /\ tokens' = removeStopWords(tokens)
    /\ pc' = "filtered"
    /\ UNCHANGED <<principles, scoreFn, ranked, rankedIsInput, principle, query,
                   categoryBoosts, score, context, requestedCategory, response,
                   served>>

NextTokenizer == Tokenize \/ RemoveStopWords

SpecTokenizer == InitTokenizer /\ [][NextTokenizer]_vars

\* The maximal runs of token characters in the text low that are at least
\* two characters long, as <<first, last>> positions.
TokenRuns(low) ==
    LET isToken == [k \in 1..Len(low) |-> IsTokenChar(CharAt(low, k))]
    IN  {r \in (1..Len(low)) \X (1..Len(low)) :
            /\ r[1] < r[2]
            /\ \A k \in r[1]..r[2] : isToken[k]
            /\ r[1] = 1 \/ ~isToken[r[1] - 1]
            /\ r[2] = Len(low) \/ ~isToken[r[2] + 1]}

\* The positions of the one-character words of the text low.
LoneChars(low) ==
    {k \in 1..Len(low) :
        /\ IsTokenChar(CharAt(low, k))
        /\ k = 1 \/ ~IsTokenChar(CharAt(low, k - 1))
        /\ k = Len(low) \/ ~IsTokenChar(CharAt(low, k + 1))}

\* C12: tokenize returns, from left to right and with duplicates, exactly
\* the maximal runs of [a-z0-9-] of the lowercased text that are at least
\* two characters long.
C12_TokensAreRuns ==
    pc = "tokenized" =>
        LET low == ToLowerCase(context)
            runs == TokenRuns(low)
        IN  /\ Len(tokens) = Cardinality(runs)
            /\ \A r \in runs :
                  tokens[1 + Cardinality({q \in runs : q[1] < r[1]})]
                      = SubSeq(low, r[1], r[2])
            /\ \A n \in 1..Len(tokens) :
                  /\ Len(tokens[n]) >= 2
                  /\ \A k \in 1..Len(tokens[n]) :
                        IsTokenChar(CharAt(tokens[n], k))

\* A text with an upper-case letter, a one-character word that is dropped,
\* and the same token returned twice.
C12_Witness ==
    /\ pc = "tokenized"
    /\ context # ToLowerCase(context)
    /\ LoneChars(ToLowerCase(context)) # {}
    /\ Len(tokens) = 2
    /\ tokens[1] = tokens[2]

\* C13: removeStopWords returns the subsequence of its input made of the
\* tokens outside the stop-word set, in input order and with multiplicity.
C13_StopWordsRemoved ==
    [][pc = "tokenized" /\ pc' = "filtered" =>
          LET kept == {n \in 1..Len(tokens) : tokens[n] \notin STOP_WORDS}
          IN  /\ Len(tokens') = Cardinality(kept)
              /\ \A n \in kept :
                    tokens'[Cardinality({m \in kept : m <= n})] = tokens[n]]_vars

\* A stop word removed from between two occurrences of the same token.
C13_Witness ==
    /\ pc = "filtered"
    /\ Len(tokenize(context)) = 3
    /\ tokenize(context)[2] \in STOP_WORDS
    /\ Len(tokens) = 2
    /\ tokens[1] = tokens[2]

JoinWithSpaces(toks) ==
    LET joined[n \in 0..Len(toks)] ==
            IF n = 0 THEN ""
            ELSE IF n = 1 THEN toks[1]
            ELSE joined[n - 1] \o " " \o toks[n]
    IN  joined[Len(toks)]

\* C14: tokenize followed by removeStopWords, applied to the space-joined
\* result of a first application, returns that result again.
C14_TokenizeIdempotent ==
    pc = "filtered" =>
        removeStopWords(tokenize(JoinWithSpaces(tokens))) = tokens

\* A first application that lowercased the text, dropped a stop word and
\* kept a token with a hyphen.
C14_Witness ==
    /\ pc = "filtered"
    /\ context # ToLowerCase(context)
    /\ context # JoinWithSpaces(tokens)
    /\ Len(tokenize(context)) = 2
    /\ Len(tokens) = 1
    /\ Includes(tokens[1], "-")

-----------------------------------------------------------------------------
(* The server: the three tool handlers over the shipped corpus.  A handler *)
(* has no await in it, so it runs to completion before another starts.     *)

\* An entry of the log of served requests.
Served(tool, argument, reply, scores, order) ==
    [tool |-> tool, argument |-> argument, response |-> reply,
     scores |-> scores, ranked |-> order]

\* The handler's locals before it runs.
FreshCall ==
    /\ tokens' = <<>>
    /\ categoryBoosts' = <<>>
    /\ scoreFn' = <<>>
    /\ ranked' = <<>>
    /\ rankedIsInput' = FALSE
    /\ response' = NoResponse

ReceiveSearchPrinciple(q) ==
    /\ pc = "idle"
    /\ pc' = "search-principle"
    /\ query' = q
    /\ context' = ""
    /\ requestedCategory' = Undefined
    /\ FreshCall
    /\ UNCHANGED <<principles, principle, score, served>>

ReceiveSearchByContext(text) ==
    /\ pc = "idle"
    /\ pc' = "search-by-context"
    /\ query' = ""
    /\ context' = text
    /\ requestedCategory' = Undefined
    /\ FreshCall
    /\ UNCHANGED <<principles, principle, score, served>>

ReceiveListPrinciples(cat) ==
    /\ pc = "idle"
    /\ pc' = "list-principles"
    /\ query' = ""
    /\ context' = ""
    /\ requestedCategory' = cat
    /\ FreshCall
    /\ UNCHANGED <<principles, principle, score, served>>

SearchPrinciple ==
    /\ pc = "search-principle"
    /\ scoreFn' = QueryScores(query)
    /\ \E result \in {rankPrinciples(<<principles>>, 1, scoreFn')} :
          /\ principles' = result.heap[1]
          /\ ranked' = result.heap[result.ref]
          /\ rankedIsInput' = (result.ref = 1)
    /\ response' = SearchResponse("search-principle", ranked',
                                  SEARCH_MAX_TOTAL_RESULTS)
    /\ served' = Append(served, Served("search-principle", query, response',
                                        scoreFn', ranked'))
    /\ pc' = "idle"
    /\ UNCHANGED <<principle, query, tokens, categoryBoosts, score, context,
                   requestedCategory>>

SearchByContext ==
    /\ pc = "search-by-context"
    /\ tokens' = removeStopWords(tokenize(context))
    /\ categoryBoosts' = detectCategoryBoosts(tokens')
    /\ scoreFn' = TokenScores(tokens', categoryBoosts')
    /\ \E result \in {rankPrinciples(<<principles>>, 1, scoreFn')} :
          /\ principles' = result.heap[1]
          /\ ranked' = result.heap[result.ref]
          /\ rankedIsInput' = (result.ref = 1)
    /\ response' = SearchResponse("search-by-context", ranked',
                                  CONTEXT_MAX_TOTAL_RESULTS)
    /\ served' = Append(served, Served("search-by-context", context, response',
                                        scoreFn', ranked'))
    /\ pc' = "idle"
    /\ UNCHANGED <<principle, query, score, context, requestedCategory>>

ListPrinciples ==
    /\ pc = "list-principles"
    /\ response' = ListResponse(principles, requestedCategory)
    /\ served' = Append(served, Served("list-principles", requestedCategory,
                                        response', <<>>, <<>>))
    /\ pc' = "idle"
    /\ UNCHANGED <<principles, scoreFn, ranked, rankedIsInput, principle, query,
                   tokens, categoryBoosts, score, context, requestedCategory>>

-----------------------------------------------------------------------------
(* Specification SpecSearch: one request, drawn from the sets below, served *)
(* by a freshly started server.                                            *)

PrincipleIds == {PRINCIPLES[i].id : i \in PrincipleObjects}

SearchQueries ==
    PrincipleIds \cup
    {"srp", "SRP", "", "   ", "zzzznotaword", "naming", "function", "s",
     "Single Responsibility", "solid", " Do-One-Thing ",
     "SINGLE-RESPONSIBILITY-PRINCIPLE"}

SearchContexts ==
    {"my function has too many parameters", "zzzznotaword", "", "?!",
     "a I x", "the this of", "My class has too many responsibilities",
     "nested if-else and null errors in async tests",
     "constructor injection", "srp", "srp srp",
     "naming variables", "How should I name a variable?",
     "parameters many too function", "variables the naming of a",
     "injection constructor", "name variable"}

ListCategories == {Undefined, "", "solid", "naming", "functions", "bogus", "SOLID"}

InitSearch ==
    /\ principles = InitialCorpus
    /\ scoreFn = <<>>
    /\ ranked = <<>>
    /\ rankedIsInput = FALSE
    /\ principle = NoPrinciple
    /\ tokens = <<>>
    /\ categoryBoosts = <<>>
    /\ score = 0
    /\ response = NoResponse
    /\ served = <<>>
    /\ \/ /\ pc = "search-principle"
          /\ query \in SearchQueries
          /\ context = ""
          /\ requestedCategory = Undefined
       \/ /\ pc = "search-by-context"
          /\ query = ""
          /\ context \in SearchContexts
          /\ requestedCategory = Undefined
       \/ /\ pc = "list-principles"
          /\ query = ""
          /\ context = ""
          /\ requestedCategory \in ListCategories

NextSearch == SearchPrinciple \/ SearchByContext \/ ListPrinciples

SpecSearch == InitSearch /\ [][NextSearch]_vars

-----------------------------------------------------------------------------
(* Specification Spec: the server takes one request after another.  The    *)
(* requests come from the sets below; served is the log of the answers.    *)

MaxServed == 3   \* the server stops taking requests at this many answers

ServerQueries == {"", "zzzznotaword"}

ServerContexts == {"my function has too many parameters", "zzzznotaword"}

ServerCategories == {Undefined}

Init ==
    /\ pc = "idle"
    /\ principles = InitialCorpus
    /\ scoreFn = <<>>
    /\ ranked = <<>>
    /\ rankedIsInput = FALSE
    /\ principle = NoPrinciple
    /\ query = ""
    /\ tokens = <<>>
    /\ categoryBoosts = <<>>
    /\ score = 0
    /\ context = ""
    /\ requestedCategory = Undefined
    /\ response = NoResponse
    /\ served = <<>>

Receive ==
    /\ Len(served) < MaxServed
    /\ \/ \E q \in ServerQueries : ReceiveSearchPrinciple(q)
       \/ \E text \in ServerContexts : ReceiveSearchByContext(text)
       \/ \E cat \in ServerCategories : ReceiveListPrinciples(cat)

Next == Receive \/ SearchPrinciple \/ SearchByContext \/ ListPrinciples

Spec == Init /\ [][Next]_vars

-----------------------------------------------------------------------------
(* Specification SpecCatalog: the server with all its entry points: the    *)
(* three tools, the two catalog resources and the code-review prompt.  The *)
(* resource and prompt callbacks have no await in them either; each is one *)
(* step.                                                                   *)

MaxCatalogServed == 2   \* the server stops taking requests at this many answers

\* The read callback of cleancode://catalog.
ReadCatalog ==
    /\ pc = "idle"
    /\ response' = CatalogResponse(principles)
    /\ served' = Append(served, Served("catalog", Undefined, response', <<>>, <<>>))
    /\ UNCHANGED <<pc, principles, scoreFn, ranked, rankedIsInput, principle,
                   query, tokens, categoryBoosts, score, context,
                   requestedCategory>>

\* The list callback of cleancode://principle/{id}.
ListPrincipleResources ==
    /\ pc = "idle"
    /\ response' = PrincipleListResponse(principles)
    /\ served' = Append(served, Served("principle-list", Undefined, response',
                                        <<>>, <<>>))
    /\ UNCHANGED <<pc, principles, scoreFn, ranked, rankedIsInput, principle,
                   query, tokens, categoryBoosts, score, context,
                   requestedCategory>>

\* The read callback of cleancode://principle/{id}.
ReadPrinciple(id) ==
    /\ pc = "idle"
    /\ response' = PrincipleResponse(principles, id)
    /\ served' = Append(served, Served("principle", id, response', <<>>, <<>>))
    /\ UNCHANGED <<pc, principles, scoreFn, ranked, rankedIsInput, principle,
                   query, tokens, categoryBoosts, score, context,
                   requestedCategory>>

\* The callback of the clean-code-review prompt.
CodeReviewPrompt(focus_categories) ==
    /\ pc = "idle"
    /\ response' = PromptResponse(principles, focus_categories)
    /\ served' = Append(served, Served("clean-code-review", focus_categories,
                                        response', <<>>, <<>>))
    /\ UNCHANGED <<pc, principles, scoreFn, ranked, rankedIsInput, principle,
                   query, tokens, categoryBoosts, score, context,
                   requestedCategory>>

CatalogQueries == {"srp"}

CatalogContexts == {"naming variables"}

CatalogCategories == {Undefined, "", "solid", "bogus", "SOLID"}

ResourceIds == {"single-responsibility-principle", "srp"}

FocusArguments ==
    {Undefined, "", " solid , naming ", "bogus", "SOLID", ",",
     "naming,bogus,solid", "solid,solid"}

ReceiveCatalog ==
    /\ Len(served) < MaxCatalogServed
    /\ \/ \E q \in CatalogQueries : ReceiveSearchPrinciple(q)
       \/ \E text \in CatalogContexts : ReceiveSearchByContext(text)
       \/ \E cat \in CatalogCategories : ReceiveListPrinciples(cat)

Resource ==
    /\ Len(served) < MaxCatalogServed
    /\ \/ ReadCatalog
       \/ ListPrincipleResources
       \/ \E id \in ResourceIds : ReadPrinciple(id)

Prompt ==
    /\ Len(served) < MaxCatalogServed
    /\ \E raw \in FocusArguments : CodeReviewPrompt(raw)

NextCatalog ==
    \/ ReceiveCatalog
    \/ SearchPrinciple
    \/ SearchByContext
    \/ ListPrinciples
    \/ Resource
    \/ Prompt

SpecCatalog == Init /\ [][NextCatalog]_vars

-----------------------------------------------------------------------------
(* Claims about the server.                                                *)

SameRequest(a, b) == a.tool = b.tool /\ a.argument = b.argument

\* C15: scoring and ranking are deterministic: whatever was served in
\* between, two requests with the same tool and argument get the same
\* scores for every principle, the same ranked order and the same answer.
C15_SameRequestSameResult ==
    \A i, j \in 1..Len(served) :
        SameRequest(served[i], served[j])
            => /\ served[i].scores = served[j].scores
               /\ served[i].ranked = served[j].ranked
               /\ served[i].response = served[j].response

\* A search was served twice with another search in between, and the three
\* ranked more than one principle.
C15_Witness ==
    /\ Len(served) = 3
    /\ SameRequest(served[1], served[3])
    /\ ~SameRequest(served[1], served[2])
    /\ \A n \in 1..3 : Len(served[n].ranked) > 1

\* The scores a server that has served nothing yet gives to the principles
\* for one request (none for a listing); toks and boosts are the tokens and
\* the boost map of a context search.
ScoresAlone(tool, argument, toks, boosts) ==
    IF tool = "search-principle" THEN QueryScores(argument)
    ELSE IF tool = "search-by-context" THEN TokenScores(toks, boosts)
    ELSE <<>>

\* The ranked order such a server computes from these scores.
RankedAlone(scores) ==
    IF scores = <<>> THEN <<>>
    ELSE LET order == rankPrinciples(<<InitialCorpus>>, 1, scores)
         IN  order.heap[order.ref]

\* The answer such a server gives.
ResponseAlone(tool, argument, order) ==
    IF tool = "search-principle"
    THEN SearchResponse(tool, order, SEARCH_MAX_TOTAL_RESULTS)
    ELSE IF tool = "search-by-context"
    THEN SearchResponse(tool, order, CONTEXT_MAX_TOTAL_RESULTS)
    ELSE ListResponse(InitialCorpus, argument)

\* C16: after any sequence of searches, context searches and listings the
\* PRINCIPLES array is as the module initialized it, and every request gets
\* the scores, the ranked order and the answer it gets when it is the only
\* request the server ever serves.  (STOP_WORDS and CATEGORY_KEYWORDS are
\* constants here: no statement of the code writes them.)
C16_CorpusUnchangedResultAsAlone ==
    /\ [](principles = InitialCorpus)
    /\ [][Len(served') > Len(served)
            => \A last \in {served'[Len(served')]} :
               \A toks \in {removeStopWords(tokenize(last.argument))} :
               \A boosts \in {detectCategoryBoosts(toks)} :
               \A scores \in {ScoresAlone(last.tool, last.argument, toks, boosts)} :
               \A order \in {RankedAlone(scores)} :
                   /\ last.scores = scores
                   /\ last.ranked = order
                   /\ last.response = ResponseAlone(last.tool, last.argument, order)]_vars

\* The three tools have been served one after another, the searches with
\* results.
C16_Witness ==
    /\ pc = "idle"
    /\ Len(served) = 3
    /\ {served[n].tool : n \in 1..3}
         = {"search-principle", "search-by-context", "list-principles"}
    /\ served[3].tool = "search-by-context"
    /\ Len(served[3].ranked) > 1
    /\ \E n \in 1..2 : Len(served[n].ranked) > 1

SearchTools == {"search-principle", "search-by-context"}

NoPrinciplesFound(tool) == Response(tool, "no-principles-found", <<>>, <<>>, <<>>)

\* C17: when a search has given no principle a score above 0, the ranked
\* array is empty and the tool returns its "No principles found" text, on
\* the query path and on the context path alike.
C17_NoMatchAnswersNoPrinciplesFound ==
    /\ pc = "idle"
    /\ response.tool \in SearchTools
    /\ \A i \in PrincipleObjects : scoreFn[i] <= 0
    => /\ ranked = <<>>
       /\ response = NoPrinciplesFound(response.tool)

\* Both search tools have answered a request that matches nothing.
C17_Witness ==
    /\ pc = "idle"
    /\ \E i, j \in 1..Len(served) :
          /\ served[i].tool = "search-principle"
          /\ served[j].tool = "search-by-context"
          /\ \A n \in {i, j} :
                /\ \A p \in PrincipleObjects : served[n].scores[p] <= 0
                /\ served[n].response = NoPrinciplesFound(served[n].tool)

-----------------------------------------------------------------------------
(* Claims about single searches over the shipped corpus (SpecSearch).      *)

\* What the tags of every principle add to its score for the empty query.
EmptyQueryTagScores == <<>> \o [i \in PrincipleObjects |-> TagsScore(PRINCIPLES[i], "")]

\* C18: for a query that normalizes to the empty string, the name, the
\* description and the category branch match every principle and the
\* exact-id branch matches none, so every principle scores 80 + 30 + 20 plus
\* its tag contribution, all of them are ranked, and they are ranked by
\* descending tag contribution (principles with equal contributions in corpus
\* order).
C18_EmptyQueryRanksAllByTags ==
    /\ pc = "idle"
    /\ response.tool = "search-principle"
    /\ NormalizeQuery(query) = ""
    => /\ \A i \in PrincipleObjects :
             /\ ~IdMatches(PRINCIPLES[i], "")
             /\ NameScore(PRINCIPLES[i], "") = NAME_CONTAINS
             /\ DescriptionScore(PRINCIPLES[i], "") = DESCRIPTION_CONTAINS
             /\ CategoryScore(PRINCIPLES[i], "") = CATEGORY_MATCH
             /\ scoreFn[i] = NAME_CONTAINS + DESCRIPTION_CONTAINS + CATEGORY_MATCH
                             + EmptyQueryTagScores[i]
             /\ scoreFn[i] > 0
       /\ Len(ranked) = Len(PRINCIPLES)
       /\ {ranked[n] : n \in 1..Len(ranked)} = PrincipleObjects
       /\ \A a, b \in 1..Len(ranked) :
             a < b => \/ EmptyQueryTagScores[ranked[a]] > EmptyQueryTagScores[ranked[b]]
                      \/ /\ EmptyQueryTagScores[ranked[a]] = EmptyQueryTagScores[ranked[b]]
                         /\ ranked[a] < ranked[b]

\* The empty query has been searched, and the tag contributions have put a
\* later principle of the corpus in front of an earlier one.
C18_Witness ==
    /\ pc = "idle"
    /\ response.tool = "search-principle"
    /\ query = ""
    /\ Len(ranked) = Len(PRINCIPLES)
    /\ \E a, b \in 1..Len(ranked) :
          /\ a < b
          /\ ranked[a] > ranked[b]
          /\ EmptyQueryTagScores[ranked[a]] > EmptyQueryTagScores[ranked[b]]

\* The categories that CATEGORY_KEYWORDS gives to one of the tokens.
HintedCategories(toks) ==
    {CATEGORY_KEYWORDS[k][2] :
        k \in {k \in 1..Len(CATEGORY_KEYWORDS) :
                  \E n \in 1..Len(toks) : toks[n] = CATEGORY_KEYWORDS[k][1]}}

Ranked(i) == \E n \in 1..Len(ranked) : ranked[n] = i

\* C19: a context search works on tokens = removeStopWords(tokenize(context)),
\* takes the boost map from these tokens and ranks every principle of the
\* corpus that scores above 0; so when a token is a keyword of category c,
\* every principle of category c scores at least 15 and is ranked, whether
\* or not a token matches its text.
C19_HintedCategoryIsRanked ==
    /\ pc = "idle"
    /\ response.tool = "search-by-context"
    => /\ tokens = removeStopWords(tokenize(context))
       /\ categoryBoosts = detectCategoryBoosts(tokens)
       /\ DOMAIN scoreFn = PrincipleObjects
       /\ \A i \in PrincipleObjects : scoreFn[i] > 0 <=> Ranked(i)
       /\ \A c \in HintedCategories(tokens) :
          \A i \in PrincipleObjects :
             InCategory(i, c) => /\ scoreFn[i] >= CATEGORY_BOOST_MULTIPLIER
                                 /\ Ranked(i)

\* A context search has ranked a principle that no token matches: its whole
\* score is the boost of its category.
C19_Witness ==
    /\ pc = "idle"
    /\ response.tool = "search-by-context"
    /\ \E i \in PrincipleObjects :
          /\ PRINCIPLES[i].category \in HintedCategories(tokens)
          /\ TokensScore(PRINCIPLES[i], tokens) = 0
          /\ scoreFn[i] >= CATEGORY_BOOST_MULTIPLIER
          /\ Ranked(i)

TooManyParameters == "my function has too many parameters"

Holds(toks, token) == \E n \in 1..Len(toks) : toks[n] = token

\* C20: for the context "my function has too many parameters" the filtered
\* tokens hold "function" and "parameters", CATEGORY_KEYWORDS gives both the
\* category functions, the boost map is exactly functions -> 2, and the
\* score of every principle of category functions is its token score plus
\* 30 (the score of every other principle is its token score).
C20_TooManyParametersBoostsFunctions ==
    /\ pc = "idle"
    /\ response.tool = "search-by-context"
    /\ context = TooManyParameters
    => /\ Holds(tokens, "function")
       /\ Holds(tokens, "parameters")
       /\ KeywordLookup("function") = "functions"
       /\ KeywordLookup("parameters") = "functions"
       /\ DOMAIN categoryBoosts = {"functions"}
       /\ categoryBoosts["functions"] = 2
       /\ \A i \in PrincipleObjects :
             scoreFn[i] = TokensScore(PRINCIPLES[i], tokens)
                          + (IF InCategory(i, "functions") THEN 30 ELSE 0)

\* The context has been searched: its four filtered tokens have ranked
\* principles of category functions, boosted, and principles of other
\* categories.
C20_Witness ==
    /\ pc = "idle"
    /\ response.tool = "search-by-context"
    /\ context = TooManyParameters
    /\ tokens = <<"function", "too", "many", "parameters">>
    /\ \E i \in PrincipleObjects :
          /\ InCategory(i, "functions")
          /\ scoreFn[i] >= 30
          /\ Ranked(i)
    /\ \E i \in PrincipleObjects : ~InCategory(i, "functions") /\ Ranked(i)

\* The principle of the corpus with id "single-responsibility-principle".
SingleResponsibility ==
    CHOOSE i \in PrincipleObjects : PRINCIPLES[i].id = "single-responsibility-principle"

\* The place of principle i in the ranked array, 0 when it is not ranked.
RankOf(i) ==
    IF Ranked(i) THEN CHOOSE n \in 1..Len(ranked) : ranked[n] = i ELSE 0

\* C21: for the query "srp" (in any case) the principle
\* single-responsibility-principle, one of whose tags is "srp", scores at
\* least 70 and is ranked, and every principle none of whose tags matches
\* the query scores less and is not ranked in front of it.
C21_SrpRanksSingleResponsibility ==
    /\ pc = "idle"
    /\ response.tool = "search-principle"
    /\ NormalizeQuery(query) = "srp"
    => /\ Holds(PRINCIPLES[SingleResponsibility].tags, "srp")
       /\ scoreFn[SingleResponsibility] >= TAG_EXACT
       /\ Ranked(SingleResponsibility)
       /\ \A i \in PrincipleObjects :
             TagsScore(PRINCIPLES[i], "srp") = 0
                => /\ scoreFn[i] < scoreFn[SingleResponsibility]
                   /\ ~(Ranked(i) /\ RankOf(i) < RankOf(SingleResponsibility))

\* "srp" has been searched: single-responsibility-principle is ranked first,
\* in front of other principles with a matching tag, and a principle without
\* a matching tag exists.
C21_Witness ==
    /\ pc = "idle"
    /\ response.tool = "search-principle"
    /\ query = "srp"
    /\ Len(ranked) > 1
    /\ ranked[1] = SingleResponsibility
    /\ \E i \in PrincipleObjects : TagsScore(PRINCIPLES[i], "srp") = 0 /\ ~Ranked(i)

\* C26: in search-principle, when the normalized query is the id of a
\* principle, that principle is the first of the ranking (and so the first
\* shown): every other principle has a smaller score.
C26_ExactIdIsRankedFirst ==
    /\ pc = "idle"
    /\ response.tool = "search-principle"
    /\ NormalizeQuery(query) \in PrincipleIds
    => /\ Len(ranked) >= 1
       /\ PRINCIPLES[ranked[1]].id = NormalizeQuery(query)
       /\ scoreFn[ranked[1]] = EXACT_ID_MATCH
       /\ \A n \in 2..Len(ranked) : scoreFn[ranked[n]] < scoreFn[ranked[1]]
       /\ Len(response.detailed) >= 1
       /\ response.detailed[1] = ranked[1]

\* Witness of C26: a query that is an id in upper case was served, and the
\* principle with that id is ranked ahead of another match.
C26_Witness ==
    /\ pc = "idle"
    /\ response.tool = "search-principle"
    /\ query = "SINGLE-RESPONSIBILITY-PRINCIPLE"
    /\ Len(ranked) > 1
    /\ ranked[1] = SingleResponsibility
    /\ scoreFn[ranked[2]] > 0

\* Two queries that are equal once lowercased and stripped of the white
\* space around them.
SameNormalForm(a, b) == Trim(ToLowerCase(a)) = Trim(ToLowerCase(b))

\* C27: the scores of search-principle, and so its ranking, depend on the
\* query through its normalized form only: any other query that is the same
\* once lowercased and trimmed gives every principle the same score and
\* gives the same ranking.
C27_ScoreDependsOnNormalizedQuery ==
    /\ pc = "idle"
    /\ response.tool = "search-principle"
    => \A other \in SearchQueries :
          SameNormalForm(query, other) /\ other # query
          => \A scores \in {QueryScores(other)} :
                /\ scores = scoreFn
                /\ RankedAlone(scores) = ranked

\* Witness of C27: the query of three spaces was served and ranks every
\* principle, and the empty query is another query with its normal form.
C27_Witness ==
    /\ pc = "idle"
    /\ response.tool = "search-principle"
    /\ query = "   "
    /\ "" \in SearchQueries
    /\ SameNormalForm(query, "")
    /\ Len(ranked) = Len(PRINCIPLES)

\* Contexts without a token: empty, punctuation only, one-character words
\* only, stop words only.
NoTokenContexts == {"", "?!", "a I x", "the this of"}

\* C28: a context that leaves no token after tokenize and removeStopWords
\* gives every principle the score 0, so search-by-context ranks nothing and
\* answers that no principle was found; the empty query of search-principle,
\* in contrast, ranks principles and shows them.
C28_NoTokenContextFindsNothing ==
    /\ pc = "idle" /\ response.tool = "search-by-context"
          /\ context \in NoTokenContexts
       => /\ tokens = <<>>
          /\ \A i \in PrincipleObjects : scoreFn[i] = 0
          /\ ranked = <<>>
          /\ response = NoPrinciplesFound("search-by-context")
    /\ pc = "idle" /\ response.tool = "search-principle" /\ query = ""
       => /\ Len(ranked) > 0
          /\ response.kind = "results"
          /\ Len(response.detailed) > 0

\* Witness of C28: a context of three stop words was served; tokenize gave
\* three tokens, removeStopWords left none and nothing is ranked.
C28_Witness ==
    /\ pc = "idle"
    /\ response.tool = "search-by-context"
    /\ context = "the this of"
    /\ Len(tokenize(context)) = 3
    /\ tokens = <<>>
    /\ ranked = <<>>

\* Two token arrays that hold the same tokens the same number of times.
SameBag(a, b) ==
    /\ Len(a) = Len(b)
    /\ \A n \in 1..Len(a) : Count(a, a[n]) = Count(b, a[n])

\* C30: the scores and the ranking of search-by-context depend on the
\* context through the multiset of its tokens that are not stop words only:
\* any other context with the same multiset (its words in another order,
\* with or without stop words and one-character words) gives every principle
\* the same score and gives the same ranking.
C30_ContextDependsOnTokenBag ==
    /\ pc = "idle"
    /\ response.tool = "search-by-context"
    => \A other \in SearchContexts \ {context} :
          \A toks \in {removeStopWords(tokenize(other))} :
             SameBag(tokens, toks)
             => \A scores \in {TokenScores(toks, detectCategoryBoosts(toks))} :
                   /\ scores = scoreFn
                   /\ RankedAlone(scores) = ranked

\* Witness of C30: the context "parameters many too function" was served and
\* ranks principles; "my function has too many parameters" is a context
\* with the same tokens in another order, and with stop words.
C30_Witness ==
    /\ pc = "idle"
    /\ response.tool = "search-by-context"
    /\ context = "parameters many too function"
    /\ tokens = <<"parameters", "many", "too", "function">>
    /\ TooManyParameters \in SearchContexts
    /\ removeStopWords(tokenize(TooManyParameters)) # tokens
    /\ SameBag(tokens, removeStopWords(tokenize(TooManyParameters)))
    /\ Len(ranked) > 1

-----------------------------------------------------------------------------
(* Claims about what the search tools show of a ranking (Spec).           *)

Smaller(a, b) == IF a < b THEN a ELSE b

ShownLimit(tool) == IF tool = "search-principle" THEN 10 ELSE 8

Shown(reply) == reply.detailed \o reply.remaining

-----------------------------------------------------------------------------
(* Claims about all the entry points of the server (SpecCatalog).          *)

\* The fields of a principle record are written nowhere in the code: the
\* records are the constant PRINCIPLES, and what an operation could change is
\* the array that holds them, principles.
DistinctIds ==
    \A i, j \in PrincipleObjects : PRINCIPLES[i].id = PRINCIPLES[j].id => i = j

CategoriesAreValid ==
    \A i \in PrincipleObjects : isValidCategory(PRINCIPLES[i].category)

ToolsServed == {served[n].tool : n \in 1..Len(served)}

\* C22: in the shipped corpus no two principles have the same id and every
\* principle's category is one of the 13 categories; and after any search,
\* listing, resource read or prompt the corpus array holds the same principle
\* records in the same order as at the start.
C22_CorpusIsWellFormedAndUnchanged ==
    /\ DistinctIds
    /\ CategoriesAreValid
    /\ Len(CATEGORIES) = 13
    /\ Len(principles) = Len(PRINCIPLES)
    /\ principles = InitialCorpus

\* Witness of C22: a search and a prompt have both been served.
C22_Witness ==
    /\ Len(served) = 2
    /\ ToolsServed = {"search-by-context", "clean-code-review"}
    /\ principles = InitialCorpus

PositionInCorpus(i) == CHOOSE n \in 1..Len(principles) : principles[n] = i

\* The list holds each principle at most once, in corpus order.
InCorpusOrder(list) ==
    \A a \in 1..(Len(list) - 1) :
        PositionInCorpus(list[a]) < PositionInCorpus(list[a + 1])

\* The list is exactly the principles of these categories, in corpus order.
ExactlyOfCategories(list, cats) ==
    /\ InCorpusOrder(list)
    /\ \A i \in PrincipleObjects :
          (\E n \in 1..Len(list) : list[n] = i) <=> PRINCIPLES[i].category \in cats

\* C24: list-principles answers by its category argument alone: a non-empty
\* string that is none of the 13 categories gets the "Invalid category"
\* message and no principle; a category gets exactly the principles of that
\* category, in corpus order; no category, or the empty string, gets the
\* whole catalog grouped by category.  (Stated of the newest answer of the
\* log; every answer is the newest when it is given.)
C24_ListPrinciplesThreeOutcomes ==
    \A n \in {Len(served)} \ {0} :
        pc = "idle" /\ served[n].tool = "list-principles"
        => \A cat \in {served[n].argument} : \A reply \in {served[n].response} :
              /\ cat # Undefined /\ cat # "" /\ cat \notin CategorySet
                 => /\ reply.kind = "invalid-category"
                    /\ reply.remaining = <<>>
                    /\ reply.groups = <<>>
              /\ cat \in CategorySet
                 => /\ reply.kind = "list"
                    /\ ExactlyOfCategories(reply.remaining, {cat})
                    /\ reply.groups = <<>>
              /\ cat = Undefined \/ cat = ""
                 => /\ reply.kind = "catalog"
                    /\ reply.remaining = <<>>
                    /\ \A g, h \in 1..Len(reply.groups) :
                          reply.groups[g][1] = reply.groups[h][1] => g = h
                    /\ \A g \in 1..Len(reply.groups) :
                          /\ Len(reply.groups[g][2]) > 0
                          /\ ExactlyOfCategories(reply.groups[g][2], {reply.groups[g][1]})
                    /\ \A i \in PrincipleObjects : \E g \in 1..Len(reply.groups) :
                          reply.groups[g][1] = PRINCIPLES[i].category

\* Witness of C24: a listing of the category solid that holds more than one
\* principle, after a request for the unknown category SOLID was refused.
C24_Witness ==
    /\ Len(served) = 2
    /\ served[1].tool = "list-principles"
    /\ served[1].argument = "SOLID"
    /\ served[1].response.kind = "invalid-category"
    /\ served[2].tool = "list-principles"
    /\ served[2].argument = "solid"
    /\ Len(served[2].response.remaining) > 1

Elements(list) == {list[n] : n \in 1..Len(list)}

\* The focus_categories arguments that hold no valid entry.
NoValidEntry == {Undefined, "", "bogus", "SOLID", ","}

\* C25: the clean-code-review prompt works on a non-empty list of valid
\* categories: the entries of focus_categories between the commas, trimmed,
\* without the invalid ones, and the default list naming, functions,
\* error-handling, code-smells when the argument is absent, empty or has no
\* valid entry; the embedded principles are exactly the principles of the
\* corpus whose category is in the list, each once, in corpus order.
\* (Stated of the newest answer of the log.)
C25_PromptFocusCategories ==
    \A n \in {Len(served)} \ {0} :
        served[n].tool = "clean-code-review"
        => \A raw \in {served[n].argument} : \A cats \in {served[n].response.groups} :
              /\ Len(cats) > 0
              /\ Elements(cats) \subseteq CategorySet
              /\ raw \in NoValidEntry
                 => cats = <<"naming", "functions", "error-handling", "code-smells">>
              /\ raw = "solid,solid" => Elements(cats) = {"solid"}
              /\ raw = " solid , naming " => cats = <<"solid", "naming">>
              /\ raw = "naming,bogus,solid" => cats = <<"naming", "solid">>
              /\ raw \notin NoValidEntry
                 => \A c \in Elements(cats) : Includes(raw, c)
              /\ ExactlyOfCategories(served[n].response.detailed, Elements(cats))

\* Witness of C25: a prompt whose argument holds padded entries got the two
\* categories named, and a prompt whose only entry is invalid got the
\* default list; both embed principles.
C25_Witness ==
    /\ Len(served) = 2
    /\ served[1].tool = "clean-code-review"
    /\ served[1].argument = " solid , naming "
    /\ served[1].response.groups = <<"solid", "naming">>
    /\ Len(served[1].response.detailed) > 1
    /\ served[2].tool = "clean-code-review"
    /\ served[2].argument = "bogus"
    /\ served[2].response.groups = DEFAULT_FOCUS_CATEGORIES
    /\ Len(served[2].response.detailed) > Len(served[1].response.detailed)

====
